---- MODULE Spec2Model ----
(* Draft AI: the extension host's message handlers and auto-scan timer      *)
(* (src/src/extension.ts), the scan orchestrator's merge, scoring and file  *)
(* selection (src/src/services/scanner.ts) and the workspace store          *)
(* (StorageService, src/unnamed/part_001).                                  *)
(*                                                                          *)
(* Strings the code takes apart (paths, titles, dedup keys) are sequences   *)
(* of one-character strings; strings it only compares (ids, names) are      *)
(* TLA+ strings.                                                            *)
EXTENDS Integers, Sequences, FiniteSets, TLC

VARIABLES
    activeOperation,   \* extension.ts:16   busy flag, "null" when free
    tasks,             \* one record per trigger: a webview message handler run or a timer tick
    nTriggers,         \* number of triggers that have arrived so far
    scanHistory,       \* workspaceState[draftai.scanHistory]
    suppressedIssues,  \* workspaceState[draftai.suppressedIssues]
    scores,            \* workspaceState[draftai.scores]
    competitorResults, \* workspaceState[draftai.competitorResults]
    auditResults,      \* workspaceState[draftai.auditResults]
    posted,            \* the messages the last step posted to the webview (type, or type:status)
    notices,           \* the notifications the last step raised (vscode.window.show*Message)
    ended,             \* the handler run that ended in the last step, and how
    profile,           \* workspaceState[draftai.projectProfile]
    longcatReady,      \* LongCatService.isReady()
    tavilyReady,       \* TavilyService.isReady()
    call               \* the call of a pure function (merge, score, file selection) and its result

vars == <<activeOperation, tasks, nTriggers, scanHistory, suppressedIssues, scores,
          competitorResults, auditResults, posted, notices, ended, profile, longcatReady,
          tavilyReady, call>>

hostVars == <<activeOperation, tasks, nTriggers, scanHistory, suppressedIssues, scores,
              competitorResults, auditResults, posted, notices, ended, profile, longcatReady,
              tavilyReady>>

Max(a, b) == IF a >= b THEN a ELSE b
Min(a, b) == IF a <= b THEN a ELSE b

(***************************************************************************)
(* String primitives                                                       *)
(***************************************************************************)

\* String.prototype.toLowerCase on the model's alphabet
ToLowerChar(c) ==
    CASE c = "X" -> "x"
      [] c = "A" -> "a"
      [] OTHER   -> c

toLowerCase(s) == [i \in 1..Len(s) |-> ToLowerChar(s[i])]

\* String.prototype.slice(from, to) for 0 <= from <= to
slice(s, from, to) == SubSeq(s, from + 1, Min(to, Len(s)))

DigitChar(d) == <<"0", "1", "2", "3", "4", "5", "6", "7", "8", "9">>[d + 1]

\* `${n}` for a non-negative integer n
RECURSIVE NumToStr(_)
NumToStr(n) == IF n < 10 THEN <<DigitChar(n)>>
               ELSE NumToStr(n \div 10) \o <<DigitChar(n % 10)>>

\* thirty filler characters, to build titles longer than the key prefix
Filler == [i \in 1..30 |-> "t"]

(***************************************************************************)
(* ScannerService: merge and health score                                  *)
(***************************************************************************)

TitlePrefixLen == 30
CriticalPenalty == 15
WarningPenalty == 5
SuggestionPenalty == 1
FullScore == 100

\* scanner.ts:268  `${issue.file}:${issue.line}:${issue.title.toLowerCase().slice(0, 30)}`
issueKey(issue) ==
    issue.file \o <<":">> \o NumToStr(issue.line) \o <<":">>
        \o slice(toLowerCase(issue.title), 0, TitlePrefixLen)

\* the filter callback of deduplicateIssues, with its `seen` set threaded through
RECURSIVE dedupFrom(_, _, _)
dedupFrom(issues, i, seen) ==
    IF i > Len(issues) THEN <<>>
    ELSE LET key == issueKey(issues[i])
         IN  IF key \in seen
             THEN dedupFrom(issues, i + 1, seen)
             ELSE <<issues[i]>> \o dedupFrom(issues, i + 1, seen \cup {key})

deduplicateIssues(issues) == dedupFrom(issues, 1, {})

\* the switch of computeHealthScore: a severity outside the three cases adds nothing
severityPenalty(severity) ==
    CASE severity = "critical"   -> CriticalPenalty
      [] severity = "warning"    -> WarningPenalty
      [] severity = "suggestion" -> SuggestionPenalty
      [] OTHER                   -> 0

RECURSIVE sumPenalty(_, _)
sumPenalty(active, i) ==
    IF i > Len(active) THEN 0
    ELSE severityPenalty(active[i].severity) + sumPenalty(active, i + 1)

\* a plausible slip: suppressed findings are not filtered out before scoring
computeHealthScoreCountingSuppressed(issues) ==
    IF Len(issues) = 0 THEN FullScore
    ELSE Max(0, FullScore - sumPenalty(issues, 1))

\* a plausible slip: the floor at 0 is missing
computeHealthScoreNoFloor(issues) ==
    LET active == SelectSeq(issues, LAMBDA i : ~i.suppressed)
    IN  IF Len(active) = 0 THEN FullScore
        ELSE FullScore - sumPenalty(active, 1)

computeHealthScore(issues) ==
    LET active == SelectSeq(issues, LAMBDA i : ~i.suppressed)
    IN  IF Len(active) = 0 THEN FullScore
        ELSE Max(0, FullScore - sumPenalty(active, 1))

(***************************************************************************)
(* ScannerService.runScan, step 1: which files to scan                     *)
(***************************************************************************)

WorkspaceRoot == <<"/", "w">>

\* path.join(this.workspaceRoot, f) for a relative path without "." or ".." segments
pathJoin(root, f) == root \o <<"/">> \o f

\* index of the last occurrence of character c in s, 0 when absent
lastIndexOf(s, c) ==
    LET hits == {i \in 1..Len(s) : s[i] = c}
    IN  IF hits = {} THEN 0 ELSE CHOOSE i \in hits : \A j \in hits : j <= i

\* path.extname: from the last "." of the last path segment, "" when that segment
\* has no "." or only a leading one
extname(p) ==
    LET slash == lastIndexOf(p, "/")
        base  == SubSeq(p, slash + 1, Len(p))
        dot   == lastIndexOf(base, ".")
    IN  IF dot <= 1 THEN <<>> ELSE SubSeq(base, dot, Len(base))

\* scanner.ts:22-26 (the extensions the model's files can have, and the rest of the set)
SCANNABLE_EXTENSIONS ==
    { <<".", "t", "s">>, <<".", "t", "s", "x">>, <<".", "j", "s">>, <<".", "j", "s", "x">>,
      <<".", "v", "u", "e">>, <<".", "s", "v", "e", "l", "t", "e">>,
      <<".", "p", "y">>, <<".", "r", "b">>, <<".", "g", "o">>, <<".", "r", "s">>,
      <<".", "j", "a", "v", "a">>, <<".", "p", "h", "p">>,
      <<".", "c", "s", "s">>, <<".", "s", "c", "s", "s">>, <<".", "h", "t", "m", "l">> }

isScannableFile(filePath) == extname(filePath) \in SCANNABLE_EXTENSIONS

\* getAllSourceFiles: `found` is what workspace.findFiles returned (fsPaths), or the
\* call threw and the catch returns []
getAllSourceFiles(found, findThrows) ==
    IF findThrows THEN <<>> ELSE SelectSeq(found, isScannableFile)

\* scanner.ts:55-69
selectFiles(gitAware, isGitRepo, changedFiles, found, findThrows) ==
    IF gitAware /\ isGitRepo
    THEN LET joined == [i \in 1..Len(changedFiles) |->
                            pathJoin(WorkspaceRoot, changedFiles[i])]
             filesToScan == SelectSeq(joined, isScannableFile)
         IN  IF Len(filesToScan) = 0
             THEN getAllSourceFiles(found, findThrows)
             ELSE filesToScan
    ELSE getAllSourceFiles(found, findThrows)

(***************************************************************************)
(* The extension host: state                                               *)
(***************************************************************************)

MaxTriggers == 3
ScanHistoryCap == 50

TaskIds == 1..MaxTriggers

NoOp == "null"

Range(f) == {f[i] : i \in DOMAIN f}

NoResult == [type |-> "none"]

\* storage.getScores() when nothing is stored (part_001:235-241)
DefaultScores == [codeHealth |-> 0, uiConsistency |-> 0, competitivePosition |-> 0]

\* a trigger that has not arrived yet
IdleTask == [kind |-> "none", pc |-> "idle", arrivedDuringScan |-> FALSE, invoked |-> FALSE,
             profile |-> "undefined", scores |-> DefaultScores, result |-> NoResult]

\* a handler run that has returned: its locals are gone
DoneTask == [IdleTask EXCEPT !.pc = "done"]

NoEnd == [kind |-> "none", outcome |-> "none"]

End(kind, outcome) == [kind |-> kind, outcome |-> outcome]

Profiles == {"undefined", "noCompetitors", "withCompetitors"}

\* the workspace configurations explored: a fresh install, a profile without
\* competitors with the search key only, a full profile with both keys
Configs ==
    { [profile |-> "undefined", longcatReady |-> FALSE, tavilyReady |-> FALSE],
      [profile |-> "noCompetitors", longcatReady |-> FALSE, tavilyReady |-> TRUE],
      [profile |-> "withCompetitors", longcatReady |-> TRUE, tavilyReady |-> TRUE] }

\* after activate(): nothing stored by a run yet, the flag free, the timer armed
\* (scanIntervalMinutes > 0); the profile and the two API keys are whatever the
\* user saved before
HostInit ==
    /\ activeOperation = NoOp
    /\ tasks = [t \in TaskIds |-> IdleTask]
    /\ nTriggers = 0
    /\ scanHistory = <<>>
    /\ suppressedIssues = <<>>
    /\ scores = DefaultScores
    /\ competitorResults = NoResult
    /\ auditResults = NoResult
    /\ posted = {}
    /\ notices = {}
    /\ ended = NoEnd
    /\ \E c \in Configs :
          /\ profile = c.profile
          /\ longcatReady = c.longcatReady
          /\ tavilyReady = c.tavilyReady

(***************************************************************************)
(* What one scan can find.  Local analyzers give a finding an id made of   *)
(* pattern, file and line (security.ts:139), so it is the same id in every *)
(* scan; AI and CVE findings get a random id per scan (scanner.ts:189,     *)
(* tavily.ts:281).                                                         *)
(***************************************************************************)

FileA == <<"a", ".", "t", "s">>
FilePkg == <<"p", ".", "j", "s", "o", "n">>

SecretFinding ==
    [id |-> "sec-hardcoded-api-key-a.ts:1", file |-> FileA, line |-> 1,
     severity |-> "critical", title |-> <<"k", "e", "y">>, suppressed |-> FALSE]

MomentFinding ==
    [id |-> "perf-import-moment-a.ts:2", file |-> FileA, line |-> 2,
     severity |-> "warning", title |-> <<"m", "o", "m">>, suppressed |-> FALSE]

\* randomUUID().slice(0, 8) of the handler run t: a value no other run draws
uuid(t) == "u" \o ToString(t)

AiId(u) == "ai-" \o u

\* an AI finding that repeats the local one at a.ts:1 (same key, other id)
AiFinding(u) ==
    [id |-> AiId(u), file |-> FileA, line |-> 1,
     severity |-> "suggestion", title |-> <<"K", "e", "y">>, suppressed |-> FALSE]

CveFinding(u) ==
    [id |-> "cve-CVE-1-" \o u, file |-> FilePkg, line |-> 1,
     severity |-> "warning", title |-> <<"c", "v", "e">>, suppressed |-> FALSE]

\* what the three stages of one scan found: local analyzers, AI chunks, CVE check
ScanFindings(u) ==
    { [localIssues |-> <<>>, aiIssues |-> <<>>, cveIssues |-> <<>>],
      [localIssues |-> <<SecretFinding>>, aiIssues |-> <<>>, cveIssues |-> <<>>],
      [localIssues |-> <<SecretFinding, MomentFinding>>,
       aiIssues |-> <<AiFinding(u)>>, cveIssues |-> <<CveFinding(u)>>] }

\* scanner.ts:133-147: merge, score, result (id, timestamp, techStack, filesScanned
\* and scanDurationMs play no part in the host's handling and are left out)
\* found.aiIssues is what the AI stage yields when it runs (scanner.ts:105)
scannerResult(found, aiReady) ==
    LET aiIssues == IF aiReady THEN found.aiIssues ELSE <<>>
        allIssues == deduplicateIssues(found.localIssues \o aiIssues \o found.cveIssues)
    IN  [type |-> "scan", issues |-> allIssues,
         healthScore |-> computeHealthScore(allIssues)]

(***************************************************************************)
(* StorageService                                                          *)
(***************************************************************************)

\* a plausible slip: the history is never cut
saveScanResultUncapped(history, result) == <<result>> \o history

\* part_001:168-174
saveScanResult(history, result) ==
    LET h == <<result>> \o history
    IN  IF Len(h) > ScanHistoryCap THEN SubSeq(h, 1, ScanHistoryCap) ELSE h

\* part_001:225-231
suppressIssue(suppressed, issueId) ==
    IF issueId \in Range(suppressed) THEN suppressed ELSE Append(suppressed, issueId)

\* extension.ts:190-196
applySuppressed(issues, suppressed) ==
    [i \in 1..Len(issues) |->
        IF issues[i].id \in Range(suppressed)
        THEN [issues[i] EXCEPT !.suppressed = TRUE]
        ELSE issues[i]]

\* a plausible slip: the guard is missing
isBusyNever(op) == FALSE

\* extension.ts:57, 169, 272, 348: `if (activeOperation)`
isBusy(op) == op # NoOp

storeVars == <<scanHistory, suppressedIssues, scores, competitorResults, auditResults>>
cfgVars == <<profile, longcatReady, tavilyReady>>

\* what a step posts to the webview, which notifications it raises, and the handler
\* run that ends in it
Effects(p, n, e) == posted' = p /\ notices' = n /\ ended' = e

Quiet == Effects({}, {}, NoEnd)

\* (for a runScan trigger the record keeps whether a scan was running at that moment)
Arrived(kind) ==
    [IdleTask EXCEPT !.kind = kind, !.pc = "detect",
                     !.arrivedDuringScan = /\ kind = "runScan"
                                           /\ activeOperation \in {"Code Health Scan", "auto-scan"}]

countActiveCritical(issues) ==
    Cardinality({i \in 1..Len(issues) :
                    issues[i].severity = "critical" /\ ~issues[i].suppressed})

(***************************************************************************)
(* Webview message "runScan" (extension.ts:162-237)                        *)
(***************************************************************************)

\* the message arrives; the handler awaits stackDetector.detect()
MsgRunScan ==
    /\ nTriggers < MaxTriggers
    /\ tasks' = [tasks EXCEPT ![nTriggers + 1] = Arrived("runScan")]
    /\ nTriggers' = nTriggers + 1
    /\ Quiet
    /\ UNCHANGED <<activeOperation, storeVars, cfgVars, call>>

\* a plausible slip: the warning is shown but the handler goes on instead of breaking
RunScanRejectedNoBreak(t) ==
    /\ tasks[t].kind = "runScan" /\ tasks[t].pc = "detect"
    /\ isBusy(activeOperation)
    /\ activeOperation' = "Code Health Scan"
    /\ tasks' = [tasks EXCEPT ![t].pc = "run", ![t].invoked = TRUE, ![t].profile = profile]
    /\ Effects({}, {"alreadyRunning"}, NoEnd)
    /\ UNCHANGED <<nTriggers, storeVars, cfgVars, call>>

\* detect() is back and the flag is set: warning, break
RunScanRejected(t) ==
    /\ tasks[t].kind = "runScan" /\ tasks[t].pc = "detect"
    /\ isBusy(activeOperation)
    /\ tasks' = [tasks EXCEPT ![t] = DoneTask]
    /\ Effects({}, {"alreadyRunning"}, End("runScan", "rejected"))
    /\ UNCHANGED <<activeOperation, nTriggers, storeVars, cfgVars, call>>

\* detect() is back and the flag is free: take it and call scanner.runScan
RunScanAccepted(t) ==
    /\ tasks[t].kind = "runScan" /\ tasks[t].pc = "detect"
    /\ ~isBusy(activeOperation)
    /\ activeOperation' = "Code Health Scan"
    /\ tasks' = [tasks EXCEPT ![t].pc = "run", ![t].invoked = TRUE, ![t].profile = profile]
    /\ Quiet
    /\ UNCHANGED <<nTriggers, storeVars, cfgVars, call>>

\* scanner.runScan resolves: mark the suppressed findings, storage.saveScanResult
RunScanReturned(t) ==
    /\ tasks[t].kind = "runScan" /\ tasks[t].pc = "run"
    /\ \E found \in ScanFindings(uuid(t)) :
          LET scanResult == scannerResult(found, longcatReady)
              marked == [scanResult EXCEPT
                            !.issues = applySuppressed(scanResult.issues, suppressedIssues)]
          IN  /\ scanHistory' = saveScanResult(scanHistory, marked)
              /\ tasks' = [tasks EXCEPT ![t].pc = "saved", ![t].result = marked]
    /\ Quiet
    /\ UNCHANGED <<activeOperation, nTriggers, suppressedIssues, scores, competitorResults,
                   auditResults, cfgVars, call>>

\* saveScanResult resolved: getScores, set codeHealth, saveScores
RunScanScores(t) ==
    /\ tasks[t].kind = "runScan" /\ tasks[t].pc = "saved"
    /\ scores' = [scores EXCEPT !.codeHealth = tasks[t].result.healthScore]
    /\ tasks' = [tasks EXCEPT ![t].pc = "scored"]
    /\ Quiet
    /\ UNCHANGED <<activeOperation, nTriggers, scanHistory, suppressedIssues,
                   competitorResults, auditResults, cfgVars, call>>

\* saveScores resolved: post the result, notify, finally release the flag
RunScanDone(t) ==
    /\ tasks[t].kind = "runScan" /\ tasks[t].pc = "scored"
    /\ activeOperation' = NoOp
    /\ tasks' = [tasks EXCEPT ![t] = DoneTask]
    /\ Effects({"scanComplete", "scoresUpdated"},
               {IF countActiveCritical(tasks[t].result.issues) > 0
                THEN "warning" ELSE "information"},
               End("runScan", "completed"))
    /\ UNCHANGED <<nTriggers, storeVars, cfgVars, call>>

\* a plausible slip: the catch block without the finally that releases the flag
RunScanFailedNoFinally(t) ==
    /\ tasks[t].kind = "runScan" /\ tasks[t].pc \in {"run", "saved", "scored"}
    /\ tasks' = [tasks EXCEPT ![t] = DoneTask]
    /\ Effects({"scanProgress:error"}, {}, End("runScan", "failed"))
    /\ UNCHANGED <<activeOperation, nTriggers, storeVars, cfgVars, call>>

\* an awaited call inside the try rejects (scanner.runScan, saveScanResult, saveScores):
\* catch posts the error, finally releases the flag
RunScanFailed(t) ==
    /\ tasks[t].kind = "runScan" /\ tasks[t].pc \in {"run", "saved", "scored"}
    /\ activeOperation' = NoOp
    /\ tasks' = [tasks EXCEPT ![t] = DoneTask]
    /\ Effects({"scanProgress:error"}, {}, End("runScan", "failed"))
    /\ UNCHANGED <<nTriggers, storeVars, cfgVars, call>>

(***************************************************************************)
(* The auto-scan timer callback (extension.ts:56-75)                       *)
(***************************************************************************)

\* a plausible slip: the tick does not return when it finds the flag set
AutoScanSkippedNoReturn ==
    /\ nTriggers < MaxTriggers
    /\ isBusy(activeOperation)
    /\ activeOperation' = "auto-scan"
    /\ tasks' = [tasks EXCEPT ![nTriggers + 1] = Arrived("autoScan")]
    /\ nTriggers' = nTriggers + 1
    /\ Quiet
    /\ UNCHANGED <<storeVars, cfgVars, call>>

\* the timer fires while the flag is set: return
AutoScanSkipped ==
    /\ nTriggers < MaxTriggers
    /\ isBusy(activeOperation)
    /\ tasks' = [tasks EXCEPT ![nTriggers + 1] = DoneTask]
    /\ nTriggers' = nTriggers + 1
    /\ Effects({}, {}, End("autoScan", "skipped"))
    /\ UNCHANGED <<activeOperation, storeVars, cfgVars, call>>

\* the timer fires while the flag is free: take it, await stackDetector.detect()
AutoScanStarted ==
    /\ nTriggers < MaxTriggers
    /\ ~isBusy(activeOperation)
    /\ activeOperation' = "auto-scan"
    /\ tasks' = [tasks EXCEPT ![nTriggers + 1] = Arrived("autoScan")]
    /\ nTriggers' = nTriggers + 1
    /\ Quiet
    /\ UNCHANGED <<storeVars, cfgVars, call>>

\* detect() is back: read profile and settings, call scanner.runScan
AutoScanDetected(t) ==
    /\ tasks[t].kind = "autoScan" /\ tasks[t].pc = "detect"
    /\ tasks' = [tasks EXCEPT ![t].pc = "run", ![t].invoked = TRUE, ![t].profile = profile]
    /\ Quiet
    /\ UNCHANGED <<activeOperation, nTriggers, storeVars, cfgVars, call>>

\* scanner.runScan resolves: storage.saveScanResult(result), as returned
AutoScanReturned(t) ==
    /\ tasks[t].kind = "autoScan" /\ tasks[t].pc = "run"
    /\ \E found \in ScanFindings(uuid(t)) :
          LET result == scannerResult(found, longcatReady)
          IN  /\ scanHistory' = saveScanResult(scanHistory, result)
              /\ tasks' = [tasks EXCEPT ![t].pc = "saved", ![t].result = result]
    /\ Quiet
    /\ UNCHANGED <<activeOperation, nTriggers, suppressedIssues, scores, competitorResults,
                   auditResults, cfgVars, call>>

\* saveScanResult resolved: getScores, set codeHealth, saveScores
AutoScanScores(t) ==
    /\ tasks[t].kind = "autoScan" /\ tasks[t].pc = "saved"
    /\ scores' = [scores EXCEPT !.codeHealth = tasks[t].result.healthScore]
    /\ tasks' = [tasks EXCEPT ![t].pc = "scored"]
    /\ Quiet
    /\ UNCHANGED <<activeOperation, nTriggers, scanHistory, suppressedIssues,
                   competitorResults, auditResults, cfgVars, call>>

\* saveScores resolved: post result and scores, finally release the flag
AutoScanDone(t) ==
    /\ tasks[t].kind = "autoScan" /\ tasks[t].pc = "scored"
    /\ activeOperation' = NoOp
    /\ tasks' = [tasks EXCEPT ![t] = DoneTask]
    /\ Effects({"scanComplete", "scoresUpdated"}, {}, End("autoScan", "completed"))
    /\ UNCHANGED <<nTriggers, storeVars, cfgVars, call>>

\* an awaited call inside the try rejects: console.warn, finally releases the flag
AutoScanFailed(t) ==
    /\ tasks[t].kind = "autoScan" /\ tasks[t].pc \in {"run", "saved", "scored"}
    /\ activeOperation' = NoOp
    /\ tasks' = [tasks EXCEPT ![t] = DoneTask]
    /\ Effects({}, {}, End("autoScan", "failed"))
    /\ UNCHANGED <<nTriggers, storeVars, cfgVars, call>>

(***************************************************************************)
(* Webview message "runResearch" (extension.ts:257-322)                    *)
(***************************************************************************)

\* a plausible slip: the credentials are checked before the competitor list
researchPreconditionKeysFirst(prof, searchReady, aiReady) ==
    IF ~searchReady THEN "noSearchKey"
    ELSE IF ~aiReady THEN "noAiKey"
    ELSE IF prof = "noCompetitors" THEN "noCompetitors"
    ELSE "ok"

\* CompetitorResearchService.runResearch, part_002:36-47: the first failing
\* precondition, "ok" when all three hold
researchPrecondition(prof, searchReady, aiReady) ==
    IF prof = "noCompetitors" THEN "noCompetitors"
    ELSE IF ~searchReady THEN "noSearchKey"
    ELSE IF ~aiReady THEN "noAiKey"
    ELSE "ok"

\* part_002:98-131, 198-218: 50 when the roadmap stage fails, else the reply's
\* competitiveScore as it came
CompetitiveScores == {50, 120}

\* UIAuditorService.runAudit: the three scores of a result (part_000:118-133)
AuditScoreChoices == {<<75, 75, 75>>, <<85, 92, 100>>}

\* Math.round((a + b + c) / 3) for non-negative integers
roundedMean3(a, b, c) == (2 * (a + b + c) + 3) \div 6

\* the message arrives: getProfile, then the handler awaits stackDetector.detect()
MsgRunResearch ==
    /\ nTriggers < MaxTriggers
    /\ tasks' = [tasks EXCEPT ![nTriggers + 1] =
                    [Arrived("runResearch") EXCEPT !.profile = profile]]
    /\ nTriggers' = nTriggers + 1
    /\ Quiet
    /\ UNCHANGED <<activeOperation, storeVars, cfgVars, call>>

\* detect() is back, no profile: error message, break
RunResearchNoProfile(t) ==
    /\ tasks[t].kind = "runResearch" /\ tasks[t].pc = "detect"
    /\ tasks[t].profile = "undefined"
    /\ tasks' = [tasks EXCEPT ![t] = DoneTask]
    /\ Effects({"error"}, {}, End("runResearch", "noProfile"))
    /\ UNCHANGED <<activeOperation, nTriggers, storeVars, cfgVars, call>>

RunResearchRejected(t) ==
    /\ tasks[t].kind = "runResearch" /\ tasks[t].pc = "detect"
    /\ tasks[t].profile # "undefined"
    /\ isBusy(activeOperation)
    /\ tasks' = [tasks EXCEPT ![t] = DoneTask]
    /\ Effects({}, {"alreadyRunning"}, End("runResearch", "rejected"))
    /\ UNCHANGED <<activeOperation, nTriggers, storeVars, cfgVars, call>>

\* scores were read after detect(); the flag is free: take it and call runResearch,
\* whose preconditions are decided at the call
RunResearchAccepted(t) ==
    /\ tasks[t].kind = "runResearch" /\ tasks[t].pc = "detect"
    /\ tasks[t].profile # "undefined"
    /\ ~isBusy(activeOperation)
    /\ activeOperation' = "Competitor Research"
    /\ tasks' = [tasks EXCEPT ![t].pc = "run", ![t].invoked = TRUE, ![t].scores = scores,
                              ![t].result = [type |-> "call",
                                  precondition |-> researchPrecondition(
                                      tasks[t].profile, tavilyReady, longcatReady)]]
    /\ Quiet
    /\ UNCHANGED <<nTriggers, storeVars, cfgVars, call>>

\* runResearch resolves: storage.saveCompetitorResults
RunResearchReturned(t) ==
    /\ tasks[t].kind = "runResearch" /\ tasks[t].pc = "run"
    /\ tasks[t].result.precondition = "ok"
    /\ \E score \in CompetitiveScores :
          LET result == [type |-> "research", competitiveScore |-> score]
          IN  /\ competitorResults' = result
              /\ tasks' = [tasks EXCEPT ![t].pc = "saved", ![t].result = result]
    /\ Quiet
    /\ UNCHANGED <<activeOperation, nTriggers, scanHistory, suppressedIssues, scores,
                   auditResults, cfgVars, call>>

\* a plausible slip: the gauge is stored in a scores object made anew
RunResearchScoresReset(t) ==
    /\ tasks[t].kind = "runResearch" /\ tasks[t].pc = "saved"
    /\ scores' = [DefaultScores EXCEPT
                     !.competitivePosition = tasks[t].result.competitiveScore]
    /\ tasks' = [tasks EXCEPT ![t].pc = "scored"]
    /\ Quiet
    /\ UNCHANGED <<activeOperation, nTriggers, scanHistory, suppressedIssues,
                   competitorResults, auditResults, cfgVars, call>>

\* the scores object read before the run gets the new gauge and is stored whole
RunResearchScores(t) ==
    /\ tasks[t].kind = "runResearch" /\ tasks[t].pc = "saved"
    /\ scores' = [tasks[t].scores EXCEPT
                     !.competitivePosition = tasks[t].result.competitiveScore]
    /\ tasks' = [tasks EXCEPT ![t].pc = "scored"]
    /\ Quiet
    /\ UNCHANGED <<activeOperation, nTriggers, scanHistory, suppressedIssues,
                   competitorResults, auditResults, cfgVars, call>>

RunResearchDone(t) ==
    /\ tasks[t].kind = "runResearch" /\ tasks[t].pc = "scored"
    /\ activeOperation' = NoOp
    /\ tasks' = [tasks EXCEPT ![t] = DoneTask]
    /\ Effects({"researchComplete", "scoresUpdated"}, {"information"},
               End("runResearch", "completed"))
    /\ UNCHANGED <<nTriggers, storeVars, cfgVars, call>>

\* a plausible slip: the error path clears the results that were stored
RunResearchFailedClearsResults(t) ==
    /\ tasks[t].kind = "runResearch" /\ tasks[t].pc \in {"run", "saved", "scored"}
    /\ activeOperation' = NoOp
    /\ competitorResults' = NoResult
    /\ tasks' = [tasks EXCEPT ![t] = DoneTask]
    /\ Effects({"researchProgress:error"}, {}, End("runResearch", "failed"))
    /\ UNCHANGED <<nTriggers, scanHistory, suppressedIssues, scores, auditResults,
                   cfgVars, call>>

\* runResearch rejects (a failed precondition, or an exception outside its own
\* try blocks), or a save rejects: catch posts the error, finally releases the flag
RunResearchFailed(t) ==
    /\ tasks[t].kind = "runResearch" /\ tasks[t].pc \in {"run", "saved", "scored"}
    /\ activeOperation' = NoOp
    /\ tasks' = [tasks EXCEPT ![t] = DoneTask]
    /\ Effects({"researchProgress:error"}, {}, End("runResearch", "failed"))
    /\ UNCHANGED <<nTriggers, storeVars, cfgVars, call>>

(***************************************************************************)
(* Webview message "runAudit" (extension.ts:334-403)                       *)
(***************************************************************************)

MsgRunAudit ==
    /\ nTriggers < MaxTriggers
    /\ tasks' = [tasks EXCEPT ![nTriggers + 1] =
                    [Arrived("runAudit") EXCEPT !.profile = profile]]
    /\ nTriggers' = nTriggers + 1
    /\ Quiet
    /\ UNCHANGED <<activeOperation, storeVars, cfgVars, call>>

RunAuditNoProfile(t) ==
    /\ tasks[t].kind = "runAudit" /\ tasks[t].pc = "detect"
    /\ tasks[t].profile = "undefined"
    /\ tasks' = [tasks EXCEPT ![t] = DoneTask]
    /\ Effects({"error"}, {}, End("runAudit", "noProfile"))
    /\ UNCHANGED <<activeOperation, nTriggers, storeVars, cfgVars, call>>

RunAuditRejected(t) ==
    /\ tasks[t].kind = "runAudit" /\ tasks[t].pc = "detect"
    /\ tasks[t].profile # "undefined"
    /\ isBusy(activeOperation)
    /\ tasks' = [tasks EXCEPT ![t] = DoneTask]
    /\ Effects({}, {"alreadyRunning"}, End("runAudit", "rejected"))
    /\ UNCHANGED <<activeOperation, nTriggers, storeVars, cfgVars, call>>

RunAuditAccepted(t) ==
    /\ tasks[t].kind = "runAudit" /\ tasks[t].pc = "detect"
    /\ tasks[t].profile # "undefined"
    /\ ~isBusy(activeOperation)
    /\ activeOperation' = "UI/UX Audit"
    /\ tasks' = [tasks EXCEPT ![t].pc = "run", ![t].invoked = TRUE]
    /\ Quiet
    /\ UNCHANGED <<nTriggers, storeVars, cfgVars, call>>

\* runAudit resolves: storage.saveAuditResults
RunAuditReturned(t) ==
    /\ tasks[t].kind = "runAudit" /\ tasks[t].pc = "run"
    /\ \E s \in AuditScoreChoices :
          LET auditResult == [type |-> "audit", designConsistencyScore |-> s[1],
                              accessibilityScore |-> s[2], structureScore |-> s[3]]
          IN  /\ auditResults' = auditResult
              /\ tasks' = [tasks EXCEPT ![t].pc = "saved", ![t].result = auditResult]
    /\ Quiet
    /\ UNCHANGED <<activeOperation, nTriggers, scanHistory, suppressedIssues, scores,
                   competitorResults, cfgVars, call>>

\* getScores, uiConsistency = rounded mean of the three scores, saveScores
RunAuditScores(t) ==
    /\ tasks[t].kind = "runAudit" /\ tasks[t].pc = "saved"
    /\ scores' = [scores EXCEPT !.uiConsistency =
                     roundedMean3(tasks[t].result.designConsistencyScore,
                                  tasks[t].result.accessibilityScore,
                                  tasks[t].result.structureScore)]
    /\ tasks' = [tasks EXCEPT ![t].pc = "scored"]
    /\ Quiet
    /\ UNCHANGED <<activeOperation, nTriggers, scanHistory, suppressedIssues,
                   competitorResults, auditResults, cfgVars, call>>

RunAuditDone(t) ==
    /\ tasks[t].kind = "runAudit" /\ tasks[t].pc = "scored"
    /\ activeOperation' = NoOp
    /\ tasks' = [tasks EXCEPT ![t] = DoneTask]
    /\ Effects({"auditComplete", "scoresUpdated"}, {"information"},
               End("runAudit", "completed"))
    /\ UNCHANGED <<nTriggers, storeVars, cfgVars, call>>

\* runAudit or a save rejects: catch posts the error, finally releases the flag
RunAuditFailed(t) ==
    /\ tasks[t].kind = "runAudit" /\ tasks[t].pc \in {"run", "saved", "scored"}
    /\ activeOperation' = NoOp
    /\ tasks' = [tasks EXCEPT ![t] = DoneTask]
    /\ Effects({"error"}, {}, End("runAudit", "failed"))
    /\ UNCHANGED <<nTriggers, storeVars, cfgVars, call>>

(***************************************************************************)
(* Webview message "suppressIssue" (extension.ts:248-254), sent by the     *)
(* Code Health tab for a finding of the result it shows (part_006:421-430) *)
(***************************************************************************)

MsgSuppressIssue ==
    /\ nTriggers < MaxTriggers
    /\ Len(scanHistory) > 0
    /\ \E i \in 1..Len(Head(scanHistory).issues) :
          suppressedIssues' = suppressIssue(suppressedIssues, Head(scanHistory).issues[i].id)
    /\ tasks' = [tasks EXCEPT ![nTriggers + 1] = DoneTask]
    /\ nTriggers' = nTriggers + 1
    /\ Effects({}, {}, End("suppressIssue", "completed"))
    /\ UNCHANGED <<activeOperation, scanHistory, scores, competitorResults,
                   auditResults, cfgVars, call>>

NoCall == [fn |-> "none"]

Init == HostInit /\ call = NoCall

Next ==
    \/ MsgRunScan
    \/ \E t \in TaskIds : RunScanRejected(t)
    \/ \E t \in TaskIds : RunScanAccepted(t)
    \/ \E t \in TaskIds : RunScanReturned(t)
    \/ \E t \in TaskIds : RunScanScores(t)
    \/ \E t \in TaskIds : RunScanDone(t)
    \/ \E t \in TaskIds : RunScanFailed(t)
    \/ AutoScanSkipped
    \/ AutoScanStarted
    \/ \E t \in TaskIds : AutoScanDetected(t)
    \/ \E t \in TaskIds : AutoScanReturned(t)
    \/ \E t \in TaskIds : AutoScanScores(t)
    \/ \E t \in TaskIds : AutoScanDone(t)
    \/ \E t \in TaskIds : AutoScanFailed(t)
    \/ MsgRunResearch
    \/ \E t \in TaskIds : RunResearchNoProfile(t)
    \/ \E t \in TaskIds : RunResearchRejected(t)
    \/ \E t \in TaskIds : RunResearchAccepted(t)
    \/ \E t \in TaskIds : RunResearchReturned(t)
    \/ \E t \in TaskIds : RunResearchScores(t)
    \/ \E t \in TaskIds : RunResearchDone(t)
    \/ \E t \in TaskIds : RunResearchFailed(t)
    \/ MsgRunAudit
    \/ \E t \in TaskIds : RunAuditNoProfile(t)
    \/ \E t \in TaskIds : RunAuditRejected(t)
    \/ \E t \in TaskIds : RunAuditAccepted(t)
    \/ \E t \in TaskIds : RunAuditReturned(t)
    \/ \E t \in TaskIds : RunAuditScores(t)
    \/ \E t \in TaskIds : RunAuditDone(t)
    \/ \E t \in TaskIds : RunAuditFailed(t)
    \/ MsgSuppressIssue

Spec == Init /\ [][Next]_vars

(***************************************************************************)
(* ScannerService.deduplicateIssues applied to the merge of one scan       *)
(* (scanner.ts:134).  The findings are drawn from pools, one per stage.    *)
(***************************************************************************)

MaxIssues == 3

Finding(id, file, line, title) ==
    [id |-> id, file |-> file, line |-> line, severity |-> "warning",
     title |-> title, suppressed |-> FALSE]

\* local analyzers report the file they were given (scanner.ts:84-90)
LocalPool ==
    { Finding("bug-u1", FileA, 2, <<"x">>),
      Finding("sec-eval-usage-a.ts:1", FileA, 1, <<"x">>) }

\* an AI finding carries whatever file, line and title the reply gave
\* (scanner.ts:188-198)
AiPool ==
    { Finding("ai-u2", FileA, 1, <<"2", ":", "x">>),
      Finding("ai-u3", FileA \o <<":", "1">>, 2, <<"x">>),
      Finding("ai-u4", FileA, 2, <<"X">>) }

CvePool ==
    { Finding("cve-CVE-1-u5", FilePkg, 12, Filler \o <<"p">>),
      Finding("cve-CVE-2-u6", FilePkg, 12, Filler \o <<"q">>) }

\* the lists without repetition over a pool, up to the given length
ListsOver(pool, maxLen) ==
    UNION { { q \in [1..n -> pool] : \A i, j \in 1..n : i # j => q[i] # q[j] } :
            n \in 0..maxLen }

DedupInputs ==
    { [localIssues |-> l, aiIssues |-> a, cveIssues |-> c] :
        l \in ListsOver(LocalPool, MaxIssues),
        a \in ListsOver(AiPool, MaxIssues),
        c \in ListsOver(CvePool, MaxIssues) }

\* the host before any trigger, in one configuration
HostIdle == HostInit /\ profile = "undefined"

InitDedup ==
    /\ HostIdle
    /\ \E found \in DedupInputs :
          /\ Len(found.localIssues) + Len(found.aiIssues) + Len(found.cveIssues) <= MaxIssues
          /\ call = [fn |-> "deduplicateIssues",
                     issues |-> found.localIssues \o found.aiIssues \o found.cveIssues,
                     done |-> FALSE, allIssues |-> <<>>]

CallDeduplicateIssues ==
    /\ call.fn = "deduplicateIssues" /\ ~call.done
    /\ call' = [call EXCEPT !.done = TRUE, !.allIssues = deduplicateIssues(call.issues)]
    /\ UNCHANGED hostVars

NextDedup == CallDeduplicateIssues

SpecDedup == InitDedup /\ [][NextDedup]_vars

(***************************************************************************)
(* ScannerService.computeHealthScore applied to two finding lists          *)
(***************************************************************************)

MaxCritical == 7
MaxOther == 1

Rep(x, n) == [i \in 1..n |-> x]

Scored(severity, suppressed) ==
    [id |-> <<>>, file |-> FileA, line |-> 1, severity |-> severity,
     title |-> <<"x">>, suppressed |-> suppressed]

\* the findings get the ids of their places
Numbered(issues) ==
    [i \in 1..Len(issues) |-> [issues[i] EXCEPT !.id = <<"i", "d", "-">> \o NumToStr(i)]]

\* a list with the given numbers of active critical, warning and suggestion
\* findings, with or without a suppressed critical one and one whose severity
\* is none of the three (an AI reply's severity is taken as it comes,
\* scanner.ts:193)
ScoreList(nc, nw, ns, withSuppressed, withOther) ==
    Numbered(Rep(Scored("critical", FALSE), nc) \o Rep(Scored("warning", FALSE), nw)
             \o Rep(Scored("suggestion", FALSE), ns)
             \o (IF withSuppressed THEN <<Scored("critical", TRUE)>> ELSE <<>>)
             \o (IF withOther THEN <<Scored("info", FALSE)>> ELSE <<>>))

ScoreInputs ==
    { ScoreList(nc, nw, ns, x, o) :
        nc \in 0..MaxCritical, nw \in 0..MaxOther, ns \in 0..MaxOther,
        x \in BOOLEAN, o \in BOOLEAN }

InitScore ==
    /\ HostIdle
    /\ \E a \in ScoreInputs, b \in ScoreInputs :
          call = [fn |-> "computeHealthScore", first |-> a, second |-> b,
                  done |-> FALSE, firstScore |-> 0, secondScore |-> 0]

CallComputeHealthScore ==
    /\ call.fn = "computeHealthScore" /\ ~call.done
    /\ call' = [call EXCEPT !.done = TRUE,
                            !.firstScore = computeHealthScore(call.first),
                            !.secondScore = computeHealthScore(call.second)]
    /\ UNCHANGED hostVars

NextScore == CallComputeHealthScore

SpecScore == InitScore /\ [][NextScore]_vars

(***************************************************************************)
(* File selection of ScannerService.runScan (scanner.ts:55-69)             *)
(***************************************************************************)

MaxChanged == 2
MaxFound == 2

\* paths git reports, relative to the workspace root
ChangedPool ==
    { <<"a", ".", "t", "s">>, <<"b", ".", "p", "y">>, <<"R", ".", "m", "d">> }

\* paths vscode.workspace.findFiles returns for the source-file glob
FoundPool ==
    { pathJoin(WorkspaceRoot, <<"a", ".", "t", "s">>),
      pathJoin(WorkspaceRoot, <<"b", ".", "p", "y">>),
      pathJoin(WorkspaceRoot, <<"c", ".", "c", "s", "s">>) }

InitFiles ==
    /\ HostIdle
    /\ \E gitAware \in BOOLEAN, isGitRepo \in BOOLEAN, findThrows \in BOOLEAN,
          changedFiles \in ListsOver(ChangedPool, MaxChanged),
          found \in ListsOver(FoundPool, MaxFound) :
          call = [fn |-> "selectFiles", gitAware |-> gitAware, isGitRepo |-> isGitRepo,
                  changedFiles |-> changedFiles, found |-> found,
                  findThrows |-> findThrows, done |-> FALSE, filesToScan |-> <<>>]

CallSelectFiles ==
    /\ call.fn = "selectFiles" /\ ~call.done
    /\ call' = [call EXCEPT !.done = TRUE,
                            !.filesToScan = selectFiles(call.gitAware, call.isGitRepo,
                                call.changedFiles, call.found, call.findThrows)]
    /\ UNCHANGED hostVars

NextFiles == CallSelectFiles

SpecFiles == InitFiles /\ [][NextFiles]_vars

(***************************************************************************)
(* ScannerService.buildChunks (scanner.ts:212-243).  Only the length of a  *)
(* text matters to it, so a text is a sequence of pieces, each the number  *)
(* of characters taken from the block of one file (of = its place in the   *)
(* list) or from a separator (of = 0).                                     *)
(***************************************************************************)

MAX_FILE_SIZE == 100000
MAX_CHUNK_TOKENS == 4000
CHARS_PER_TOKEN == 4
ChunkCap == 10
ChunkSeparatorLen == 2
\* the characters buildChunkAnalysisPrompt puts around path and code
ChunkPromptOverhead == 115

Piece(of, chars) == [of |-> of, chars |-> chars]

RECURSIVE textLength(_)
textLength(text) ==
    IF text = <<>> THEN 0 ELSE Head(text).chars + textLength(Tail(text))

\* text.slice(0, n)
RECURSIVE sliceText(_, _)
sliceText(text, n) ==
    IF text = <<>> \/ n <= 0 THEN <<>>
    ELSE IF Head(text).chars >= n THEN <<Piece(Head(text).of, n)>>
    ELSE <<Head(text)>> \o sliceText(Tail(text), n - Head(text).chars)

\* codeHealth.ts:275-287
buildChunkAnalysisPrompt(i, file) ==
    <<Piece(i, ChunkPromptOverhead + Len(file.relPath) + file.size)>>

\* the loop of buildChunks from file i on; yields the chunks pushed and the open chunk
RECURSIVE chunkLoop(_, _, _, _)
chunkLoop(files, i, chunks, currentChunk) ==
    IF i > Len(files) THEN [chunks |-> chunks, currentChunk |-> currentChunk]
    ELSE IF ~files[i].readable \/ files[i].size > MAX_FILE_SIZE
    THEN chunkLoop(files, i + 1, chunks, currentChunk)
    ELSE LET fileBlock == buildChunkAnalysisPrompt(i, files[i])
             maxChars == MAX_CHUNK_TOKENS * CHARS_PER_TOKEN
         IN  IF textLength(currentChunk) + textLength(fileBlock) > maxChars
             THEN chunkLoop(files, i + 1,
                            IF textLength(currentChunk) > 0
                            THEN Append(chunks, currentChunk) ELSE chunks,
                            IF textLength(fileBlock) > maxChars
                            THEN sliceText(fileBlock, maxChars) ELSE fileBlock)
             ELSE chunkLoop(files, i + 1, chunks,
                            currentChunk \o <<Piece(0, ChunkSeparatorLen)>> \o fileBlock)

\* a plausible slip: the cap on the number of chunks is missing
buildChunksUncapped(files) ==
    LET end == chunkLoop(files, 1, <<>>, <<>>)
    IN  IF textLength(end.currentChunk) > 0
        THEN Append(end.chunks, end.currentChunk) ELSE end.chunks

buildChunks(files) ==
    LET end == chunkLoop(files, 1, <<>>, <<>>)
        chunks == IF textLength(end.currentChunk) > 0
                  THEN Append(end.chunks, end.currentChunk) ELSE end.chunks
    IN  SubSeq(chunks, 1, Min(ChunkCap, Len(chunks)))

MaxMixed == 2
MaxTail == 11

\* the path of the file at place i, relative to the workspace root
FileName(i) == <<"f">> \o NumToStr(i) \o <<".", "t", "s">>

FileKinds == {"small", "half", "exact", "over", "largest", "oversized", "unreadable"}

\* a file of the given kind at place i: its block is small, half the budget, exactly
\* the budget, one character over it; its content is the largest that is read, one
\* character more than that; it cannot be read
FileOfKind(kind, i) ==
    LET budget == MAX_CHUNK_TOKENS * CHARS_PER_TOKEN
        room == budget - ChunkPromptOverhead - Len(FileName(i))
        size == CASE kind = "small" -> 100
                  [] kind = "half" -> room - (budget \div 2)
                  [] kind = "exact" -> room
                  [] kind = "over" -> room + 1
                  [] kind = "largest" -> MAX_FILE_SIZE
                  [] kind = "oversized" -> MAX_FILE_SIZE + 1
                  [] OTHER -> 100
    IN  [relPath |-> FileName(i), size |-> size, readable |-> kind # "unreadable"]

\* up to MaxMixed files of any kinds, then up to MaxTail files that each fill a chunk
ChunkInputs ==
    { [i \in 1..(Len(head) + n) |->
          FileOfKind(IF i <= Len(head) THEN head[i] ELSE fill, i)] :
        head \in UNION {[1..m -> FileKinds] : m \in 0..MaxMixed},
        n \in 0..MaxTail, fill \in {"exact", "over"} }

InitChunks ==
    /\ HostIdle
    /\ \E files \in ChunkInputs :
          call = [fn |-> "buildChunks", files |-> files, done |-> FALSE, chunks |-> <<>>]

CallBuildChunks ==
    /\ call.fn = "buildChunks" /\ ~call.done
    /\ call' = [call EXCEPT !.done = TRUE, !.chunks = buildChunks(call.files)]
    /\ UNCHANGED hostVars

NextChunks == CallBuildChunks

SpecChunks == InitChunks /\ [][NextChunks]_vars

(***************************************************************************)
(* CompetitorResearchService.runResearch (part_002:29-139), one step per   *)
(* awaited call together with its outcome.                                 *)
(***************************************************************************)

MaxCompetitors == 2

CompetitorNames == <<"acme", "globex", "initech", "umbrella">>

\* what tavily.searchCompetitor can yield for one competitor: the titles of the results
SearchOutcomes ==
    { [throws |-> TRUE, titles |-> <<>>],
      [throws |-> FALSE, titles |-> <<>>],
      [throws |-> FALSE, titles |-> <<"t1", "t2", "t3", "t4">>] }

\* what an AI call can yield: it throws, or replies text that parses as JSON or not
GapReplies == {"throws", "unparsable", "json"}

RoadmapReplies ==
    { [kind |-> "throws", hasScore |-> FALSE, competitiveScore |-> 0],
      [kind |-> "unparsable", hasScore |-> FALSE, competitiveScore |-> 0],
      [kind |-> "json", hasScore |-> FALSE, competitiveScore |-> 0],
      [kind |-> "json", hasScore |-> TRUE, competitiveScore |-> 72],
      [kind |-> "json", hasScore |-> TRUE, competitiveScore |-> 120],
      [kind |-> "json", hasScore |-> TRUE, competitiveScore |-> -5] }

EmptyGapAnalysis ==
    [competitorProfiles |-> <<>>, missingFeatures |-> <<>>, opportunities |-> <<>>,
     threats |-> <<>>]

\* part_002:170-192: the reply's fields when it parses, the empty analysis when not
parseGapAnalysis(reply, competitors) ==
    IF reply = "json"
    THEN [competitorProfiles |->
              [i \in 1..Len(competitors) |-> [name |-> competitors[i], features |-> <<"ai">>]],
          missingFeatures |-> <<"sso">>, opportunities |-> <<"pricing">>,
          threats |-> <<"funding">>]
    ELSE EmptyGapAnalysis

\* part_002:223-239
buildFallbackGapAnalysis(searchResults) ==
    [competitorProfiles |->
         [i \in 1..Len(searchResults) |->
              [name |-> searchResults[i].competitor,
               features |-> SubSeq(searchResults[i].results, 1,
                                   Min(3, Len(searchResults[i].results)))]],
     missingFeatures |-> <<>>,
     opportunities |-> <<"AI analysis unavailable">>,
     threats |-> <<>>]

\* a plausible slip: a reply without a score counts as score 0
parseRoadmapScoreZero(reply) ==
    IF reply.kind = "json" /\ reply.hasScore THEN reply.competitiveScore ELSE 0

\* part_002:198-218: the competitive score of a roadmap reply
parseRoadmapScore(reply) ==
    IF reply.kind = "json" /\ reply.hasScore THEN reply.competitiveScore ELSE 50

\* 10 + Math.round((i / n) * 30)
searchProgress(i, n) == 10 + ((2 * i * 30 + n) \div (2 * n))

Progress(status, progress) == [status |-> status, progress |-> progress]

InitResearch ==
    /\ HostIdle
    /\ \E n \in 0..MaxCompetitors, searchReady \in BOOLEAN, aiReady \in BOOLEAN :
          call = [fn |-> "runResearch",
                  competitors |-> SubSeq(CompetitorNames, 1, n),
                  searchReady |-> searchReady, aiReady |-> aiReady,
                  pc |-> "start", error |-> "none",
                  searchCalls |-> 0, aiCalls |-> 0, progress |-> <<>>,
                  searchResults |-> <<>>, gapReply |-> "none",
                  gapAnalysis |-> EmptyGapAnalysis, roadmapReply |-> "none",
                  result |-> NoResult]

\* part_002:36-50: the preconditions, then the first progress event
ResearchPreconditions ==
    /\ call.fn = "runResearch" /\ call.pc = "start"
    /\ LET failed == researchPrecondition(
                        IF Len(call.competitors) = 0 THEN "noCompetitors"
                        ELSE "withCompetitors", call.searchReady, call.aiReady)
       IN  call' = IF failed # "ok"
                   THEN [call EXCEPT !.pc = "failed", !.error = failed]
                   ELSE [call EXCEPT !.pc = "search",
                                     !.progress = <<Progress("searching", 10)>>]
    /\ UNCHANGED hostVars

\* part_002:54-70: the search for the next competitor, which may throw
ResearchSearch ==
    /\ call.fn = "runResearch" /\ call.pc = "search"
    /\ Len(call.searchResults) < Len(call.competitors)
    /\ \E outcome \in SearchOutcomes :
          LET i == Len(call.searchResults)
              name == call.competitors[i + 1]
          IN  call' = [call EXCEPT
                  !.progress = Append(@, Progress("searching",
                                   searchProgress(i, Len(call.competitors)))),
                  !.searchCalls = @ + 1,
                  !.searchResults = Append(@, [competitor |-> name,
                                               results |-> outcome.titles])]
    /\ UNCHANGED hostVars

\* part_002:72-95: the gap analysis call; the fallback when it throws
ResearchGapAnalysis ==
    /\ call.fn = "runResearch" /\ call.pc = "search"
    /\ Len(call.searchResults) = Len(call.competitors)
    /\ \E reply \in GapReplies :
          call' = [call EXCEPT
              !.pc = "roadmap",
              !.progress = Append(@, Progress("analyzing", 45)),
              !.aiCalls = @ + 1,
              !.gapReply = reply,
              !.gapAnalysis = IF reply = "throws"
                              THEN buildFallbackGapAnalysis(call.searchResults)
                              ELSE parseGapAnalysis(reply, call.competitors)]
    /\ UNCHANGED hostVars

\* part_002:97-139: the roadmap call, the result and the last progress event
ResearchRoadmap ==
    /\ call.fn = "runResearch" /\ call.pc = "roadmap"
    /\ \E reply \in RoadmapReplies :
          LET competitiveScore == IF reply.kind = "throws" THEN 50
                                  ELSE parseRoadmapScore(reply)
              roadmap == IF reply.kind = "json" THEN <<"item">> ELSE <<>>
          IN  call' = [call EXCEPT
                  !.pc = "done",
                  !.progress = @ \o <<Progress("roadmap", 75), Progress("complete", 100)>>,
                  !.aiCalls = @ + 1,
                  !.roadmapReply = reply.kind,
                  !.result = [type |-> "research", gapAnalysis |-> call.gapAnalysis,
                              roadmap |-> roadmap,
                              competitiveScore |-> competitiveScore]]
    /\ UNCHANGED hostVars

NextResearch ==
    \/ ResearchPreconditions
    \/ ResearchSearch
    \/ ResearchGapAnalysis
    \/ ResearchRoadmap

SpecResearch == InitResearch /\ [][NextResearch]_vars

(***************************************************************************)
(* ScannerService.runScan (scanner.ts:45-156) with runAIAnalysis           *)
(* (scanner.ts:162-207), one step per awaited call together with its       *)
(* outcome.                                                                *)
(***************************************************************************)

MaxScanFiles == 2

RECURSIVE joinChars(_)
joinChars(chars) == IF chars = <<>> THEN "" ELSE Head(chars) \o joinChars(Tail(chars))

\* the finding the security analyzer reports for a file it is given (security.ts:139)
LocalFinding(relPath) ==
    [id |-> "sec-hardcoded-api-key-" \o joinChars(relPath) \o ":1", file |-> relPath,
     line |-> 1, severity |-> "critical", title |-> <<"k", "e", "y">>, suppressed |-> FALSE]

\* the finding the reply for chunk k reports (scanner.ts:188-198)
ChunkFinding(k) ==
    [id |-> AiId(uuid(k)), file |-> <<"u", "n", "k", "n", "o", "w", "n">>, line |-> k,
     severity |-> "warning", title |-> <<"a", "i">>, suppressed |-> FALSE]

\* longcat.analyze for one chunk: it throws, or replies text that is not JSON, JSON
\* with an issues array, or JSON whose issues array holds a finding and then null
ChunkReplies == {"throws", "unparsable", "json", "jsonNullEntry"}

\* scanner.ts:181-203: the findings pushed for chunk k
chunkIssues(reply, k) ==
    IF reply \in {"json", "jsonNullEntry"} THEN <<ChunkFinding(k)>> ELSE <<>>

\* osv.scanDependencies: it throws, finds nothing, or finds a vulnerability
CveOutcomes == {"throws", "none", "found"}

\* how the git queries of the file selection can end
GitOutcomes == {"notGitAware", "notARepo", "changed", "noChanges"}

\* a plausible slip: the share of the chunks done, without the 40 of the stages before
chunkProgressFromZero(i, n) == (2 * i * 30 + n) \div (2 * n)

\* 40 + Math.round((i / chunks.length) * 30)
chunkProgress(i, n) == 40 + ((2 * i * 30 + n) \div (2 * n))

ScanInputs ==
    UNION { { [i \in 1..n |-> FileOfKind(kinds[i], i)] :
                kinds \in [1..n -> {"exact", "unreadable", "oversized"}] } :
            n \in 0..MaxScanFiles }

\* the files of the workspace among the given absolute paths, in that order
filesAt(workspace, paths) ==
    [p \in 1..Len(paths) |->
        CHOOSE f \in Range(workspace) : pathJoin(WorkspaceRoot, f.relPath) = paths[p]]

InitScan ==
    /\ HostIdle
    /\ \E workspace \in ScanInputs, git \in GitOutcomes, findThrows \in BOOLEAN,
          aiReady \in BOOLEAN :
          call = [fn |-> "runScan", workspace |-> workspace, git |-> git,
                  findThrows |-> findThrows, aiReady |-> aiReady,
                  pc |-> "start", progress |-> <<>>, filesToScan |-> <<>>,
                  localIssues |-> <<>>, chunks |-> <<>>, sent |-> <<>>,
                  replies |-> <<>>, aiIssues |-> <<>>, cve |-> "none",
                  cveIssues |-> <<>>, result |-> NoResult]

\* scanner.ts:53-69
ScanSelectFiles ==
    /\ call.fn = "runScan" /\ call.pc = "start"
    /\ LET relPaths == [i \in 1..Len(call.workspace) |-> call.workspace[i].relPath]
           found == [i \in 1..Len(relPaths) |-> pathJoin(WorkspaceRoot, relPaths[i])]
           paths == selectFiles(call.git # "notGitAware", call.git \in {"changed", "noChanges"},
                                IF call.git = "changed" THEN relPaths ELSE <<>>,
                                found, call.findThrows)
       IN  call' = [call EXCEPT !.pc = "local",
                                !.progress = <<Progress("starting", 0)>>,
                                !.filesToScan = filesAt(call.workspace, paths)]
    /\ UNCHANGED hostVars

\* the findings of the local analyzers over the files that can be read (scanner.ts:79-95)
RECURSIVE localAnalysis(_)
localAnalysis(files) ==
    IF files = <<>> THEN <<>>
    ELSE (IF Head(files).readable /\ Head(files).size <= MAX_FILE_SIZE
          THEN <<LocalFinding(Head(files).relPath)>> ELSE <<>>)
         \o localAnalysis(Tail(files))

\* a plausible slip: the AI stage runs whether or not the credential is set
aiStageRunsAlways(aiReady) == TRUE

\* scanner.ts:105
aiStageRuns(aiReady) == aiReady

\* a plausible slip: a skipped AI stage reports nothing
aiSkippedProgressNone(runs) == <<>>

\* scanner.ts:112-121: the event of the AI stage when the stage is skipped
aiSkippedProgress(runs) == IF runs THEN <<>> ELSE <<Progress("ai", 70)>>

\* scanner.ts:71-122, 172: local analyzers, then the AI stage is entered or skipped
ScanLocalAnalyzers ==
    /\ call.fn = "runScan" /\ call.pc = "local"
    /\ LET chunks == IF aiStageRuns(call.aiReady) THEN buildChunks(call.filesToScan) ELSE <<>>
       IN  call' = [call EXCEPT
               !.pc = IF Len(chunks) > 0 THEN "ai" ELSE "cve",
               !.localIssues = localAnalysis(call.filesToScan),
               !.chunks = chunks,
               !.progress = @ \o <<Progress("local", 10), Progress("local", 40)>>
                              \o aiSkippedProgress(aiStageRuns(call.aiReady))]
    /\ UNCHANGED hostVars

\* a plausible slip: the call for a chunk is not inside a try block of its own
ScanAnalyzeChunkUncaught ==
    /\ call.fn = "runScan" /\ call.pc = "ai"
    /\ \E reply \in ChunkReplies :
          LET k == Len(call.sent) + 1
              n == Len(call.chunks)
              failed == reply \in {"throws", "jsonNullEntry"}
          IN  call' = [call EXCEPT
                  !.pc = IF k = n \/ failed THEN "cve" ELSE "ai",
                  !.progress = Append(@, Progress("ai", chunkProgress(k - 1, n)))
                                 \o (IF failed THEN <<Progress("ai", 70)>> ELSE <<>>),
                  !.sent = Append(@, k),
                  !.replies = Append(@, reply),
                  !.aiIssues = IF failed THEN <<>> ELSE @ \o chunkIssues(reply, k)]
    /\ UNCHANGED hostVars

\* scanner.ts:174-204: the next chunk is sent; its findings, if any, are pushed
ScanAnalyzeChunk ==
    /\ call.fn = "runScan" /\ call.pc = "ai"
    /\ \E reply \in ChunkReplies :
          LET k == Len(call.sent) + 1
              n == Len(call.chunks)
          IN  call' = [call EXCEPT
                  !.pc = IF k = n THEN "cve" ELSE "ai",
                  !.progress = Append(@, Progress("ai", chunkProgress(k - 1, n))),
                  !.sent = Append(@, k),
                  !.replies = Append(@, reply),
                  !.aiIssues = @ \o chunkIssues(reply, k)]
    /\ UNCHANGED hostVars

\* a plausible slip: the vulnerability check is not inside a try block
ScanCveUncaught ==
    /\ call.fn = "runScan" /\ call.pc = "cve"
    /\ \E outcome \in CveOutcomes :
          IF outcome = "throws"
          THEN call' = [call EXCEPT !.pc = "failed", !.cve = outcome,
                                    !.progress = Append(@, Progress("cve", 80))]
          ELSE LET cveIssues == IF outcome = "found" THEN <<CveFinding(uuid(0))>> ELSE <<>>
                   allIssues == deduplicateIssues(call.localIssues \o call.aiIssues
                                                  \o cveIssues)
               IN  call' = [call EXCEPT
                       !.pc = "done", !.cve = outcome, !.cveIssues = cveIssues,
                       !.progress = @ \o <<Progress("cve", 80), Progress("complete", 100)>>,
                       !.result = [type |-> "scan", issues |-> allIssues,
                                   healthScore |-> computeHealthScore(allIssues)]]
    /\ UNCHANGED hostVars

\* scanner.ts:124-155: the vulnerability check, the merge, the score, the result
ScanCve ==
    /\ call.fn = "runScan" /\ call.pc = "cve"
    /\ \E outcome \in CveOutcomes :
          LET cveIssues == IF outcome = "found" THEN <<CveFinding(uuid(0))>> ELSE <<>>
              allIssues == deduplicateIssues(call.localIssues \o call.aiIssues \o cveIssues)
          IN  call' = [call EXCEPT
                  !.pc = "done", !.cve = outcome, !.cveIssues = cveIssues,
                  !.progress = @ \o <<Progress("cve", 80), Progress("complete", 100)>>,
                  !.result = [type |-> "scan", issues |-> allIssues,
                              healthScore |-> computeHealthScore(allIssues)]]
    /\ UNCHANGED hostVars

NextScan ==
    \/ ScanSelectFiles
    \/ ScanLocalAnalyzers
    \/ ScanAnalyzeChunk
    \/ ScanCve

SpecScan == InitScan /\ [][NextScan]_vars

\* every step of a scan is a call that returns or throws; none stays pending for ever
\* (the AI and search clients abort a call at its timeout, longcat.ts:50-51)
SpecScanFair == SpecScan /\ WF_vars(NextScan)

(***************************************************************************)
(* UIAuditorService.runAudit (part_000:62-140), one step per stage.        *)
(* A finding is its area, title and severity; titles are shortened.        *)
(***************************************************************************)

AuditFallbackDefault == 75
AuditCriticalPenalty == 15
AuditWarningPenalty == 8
AuditSuggestionPenalty == 3
AuditTitlePrefixLen == 40

MaxComparisonFindings == 7

AuditFinding(area, title, severity) == [area |-> area, title |-> title, severity |-> severity]

\* the findings runLocalChecks can push (part_000:268-362)
MissingAlt == AuditFinding("accessibility", <<"a", "l", "t">>, "warning")
ClickableDiv == AuditFinding("accessibility", <<"d", "i", "v">>, "warning")
DangerousHtml == AuditFinding("structure", <<"h", "t", "m", "l">>, "critical")
MissingEmptyState == AuditFinding("structure", <<"e", "m", "p", "t", "y">>, "suggestion")
MissingLoadingState == AuditFinding("structure", <<"l", "o", "a", "d">>, "suggestion")
NoMainLandmark == AuditFinding("accessibility", <<"m", "a", "i", "n">>, "warning")
NoNavLandmark == AuditFinding("accessibility", <<"n", "a", "v">>, "suggestion")

\* what runLocalChecks returns: nothing, one finding, the same finding in two files,
\* or every finding it knows
LocalAuditChoices ==
    { <<>>,
      <<MissingAlt>>,
      <<DangerousHtml, DangerousHtml>>,
      <<MissingAlt, ClickableDiv, DangerousHtml, MissingEmptyState, MissingLoadingState,
        NoMainLandmark, NoNavLandmark>> }

\* the reply to the audit chat call: the call throws, the reply is not JSON, or it is
\* JSON with three scores (each <<n>>, or <<>> when the field is missing) and findings
AuditReplies ==
    { [kind |-> "throws"], [kind |-> "unparsable"],
      [kind |-> "json", designConsistencyScore |-> <<72>>, accessibilityScore |-> <<80>>,
       structureScore |-> <<90>>,
       findings |-> <<AuditFinding("design", <<"h", "u", "e">>, "warning")>>],
      [kind |-> "json", designConsistencyScore |-> <<120>>, accessibilityScore |-> <<0 - 5>>,
       structureScore |-> <<>>, findings |-> <<>>],
      [kind |-> "json", designConsistencyScore |-> <<0>>, accessibilityScore |-> <<0>>,
       structureScore |-> <<0>>,
       findings |-> <<AuditFinding("accessibility", <<"A", "L", "T">>, "critical")>>] }

\* Math.min(100, Math.max(0, x ?? 0))
clampScore(x) == IF x = <<>> THEN 0 ELSE Min(100, Max(0, x[1]))

\* part_000:442-476
parseAuditResponse(reply) ==
    IF reply.kind = "json"
    THEN [designConsistencyScore |-> clampScore(reply.designConsistencyScore),
          accessibilityScore |-> clampScore(reply.accessibilityScore),
          structureScore |-> clampScore(reply.structureScore),
          findings |-> reply.findings]
    ELSE [designConsistencyScore |-> 0, accessibilityScore |-> 0, structureScore |-> 0,
          findings |-> <<>>]

\* runComparison (part_000:406-436): it throws, or returns n critical design findings
\* with titles of their own
ComparisonOutcomes ==
    {[kind |-> "throws", found |-> 0]}
        \cup {[kind |-> "returns", found |-> n] : n \in 0..MaxComparisonFindings}

NoComparison == [kind |-> "none", found |-> 0]

comparisonFindings(outcome) ==
    [i \in 1..outcome.found |-> AuditFinding("design", <<"c">> \o NumToStr(i), "critical")]

auditKey(f) == <<f.area, slice(toLowerCase(f.title), 0, AuditTitlePrefixLen)>>

RECURSIVE mergeFrom(_, _)
mergeFrom(all, seen) ==
    IF all = <<>> THEN <<>>
    ELSE IF auditKey(Head(all)) \in seen THEN mergeFrom(Tail(all), seen)
    ELSE <<Head(all)>> \o mergeFrom(Tail(all), seen \cup {auditKey(Head(all))})

\* part_000:500-515
mergeFindings(local, ai, comparison) == mergeFrom(local \o ai \o comparison, {})

auditPenalty(f) ==
    IF f.severity = "critical" THEN AuditCriticalPenalty
    ELSE IF f.severity = "warning" THEN AuditWarningPenalty
    ELSE AuditSuggestionPenalty

RECURSIVE areaPenalty(_, _)
areaPenalty(findings, area) ==
    IF findings = <<>> THEN 0
    ELSE (IF Head(findings).area = area THEN auditPenalty(Head(findings)) ELSE 0)
         + areaPenalty(Tail(findings), area)

\* a plausible slip: the fallback score has no floor below it
computeAreaScoreNoFloor(findings, area) ==
    IF \A i \in 1..Len(findings) : findings[i].area # area THEN AuditFallbackDefault
    ELSE 100 - areaPenalty(findings, area)

\* part_000:524-536
computeAreaScore(findings, area) ==
    IF \A i \in 1..Len(findings) : findings[i].area # area THEN AuditFallbackDefault
    ELSE Max(0, 100 - areaPenalty(findings, area))

\* part_000:519-543
computeScoresFromFindings(findings) ==
    [design |-> computeAreaScore(findings, "design"),
     accessibility |-> computeAreaScore(findings, "accessibility"),
     structure |-> computeAreaScore(findings, "structure")]

ZeroScores == [design |-> 0, accessibility |-> 0, structure |-> 0]

InitAudit ==
    /\ HostIdle
    /\ \E aiReady \in BOOLEAN, searchReady \in BOOLEAN, hasUrl \in BOOLEAN :
          call = [fn |-> "runAudit", aiReady |-> aiReady, searchReady |-> searchReady,
                  hasUrl |-> hasUrl, pc |-> "start", progress |-> <<>>,
                  localFindings |-> <<>>, reply |-> [kind |-> "none"],
                  aiFindings |-> <<>>, scores |-> ZeroScores, usedFallback |-> FALSE,
                  comparison |-> NoComparison, comparisonFindings |-> <<>>,
                  result |-> NoResult]

\* part_000:69-77
AuditParse ==
    /\ call.fn = "runAudit" /\ call.pc = "start"
    /\ \E local \in LocalAuditChoices :
          call' = [call EXCEPT !.pc = "analyze", !.localFindings = local,
                               !.progress = <<Progress("parsing", 10),
                                              Progress("analyzing", 35)>>]
    /\ UNCHANGED hostVars

\* part_000:79-104
AuditAnalyze ==
    /\ call.fn = "runAudit" /\ call.pc = "analyze"
    /\ IF call.aiReady
       THEN \E reply \in AuditReplies :
               LET parsed == parseAuditResponse(reply)
               IN  call' = [call EXCEPT
                       !.pc = "compare", !.reply = reply,
                       !.aiFindings = parsed.findings,
                       !.scores = [design |-> parsed.designConsistencyScore,
                                   accessibility |-> parsed.accessibilityScore,
                                   structure |-> parsed.structureScore]]
       ELSE call' = [call EXCEPT !.pc = "compare"]
    /\ UNCHANGED hostVars

\* part_000:106-139
AuditCompare ==
    /\ call.fn = "runAudit" /\ call.pc = "compare"
    /\ LET compares == call.hasUrl /\ call.searchReady /\ call.aiReady
       IN  \E outcome \in (IF compares THEN ComparisonOutcomes ELSE {NoComparison}) :
              LET found == comparisonFindings(outcome)
                  allFindings == mergeFindings(call.localFindings, call.aiFindings, found)
                  fallback == call.scores = ZeroScores
                  final == IF fallback THEN computeScoresFromFindings(allFindings)
                            ELSE call.scores
              IN  call' = [call EXCEPT
                      !.pc = "done", !.comparison = outcome,
                      !.comparisonFindings = found,
                      !.scores = final, !.usedFallback = fallback,
                      !.progress = @ \o (IF compares THEN <<Progress("comparing", 70)>>
                                         ELSE <<>>)
                                     \o <<Progress("complete", 100)>>,
                      !.result = [type |-> "audit",
                                  designConsistencyScore |-> final.design,
                                  accessibilityScore |-> final.accessibility,
                                  structureScore |-> final.structure,
                                  findings |-> allFindings]]
    /\ UNCHANGED hostVars

NextAudit ==
    \/ AuditParse
    \/ AuditAnalyze
    \/ AuditCompare

SpecAudit == InitAudit /\ [][NextAudit]_vars

(***************************************************************************)
(* StorageService.exportTeamConfig and importTeamConfig                    *)
(* (part_001:270-311).  A JSON text is the tree it denotes: null, a        *)
(* string, a number, an array of values, or an object of key-value pairs   *)
(* in the order written.  A stored profile is <<>> (undefined) or <<p>>.   *)
(***************************************************************************)

MaxClock == 2
MaxSuppressed == 2

JsonNull == [t |-> "null"]
JsonString(s) == [t |-> "string", v |-> s]
JsonNumber(n) == [t |-> "number", v |-> n]
JsonArray(values) == [t |-> "array", v |-> values]
JsonObject(pairs) == [t |-> "object", v |-> pairs]

\* new Date().toISOString() at clock reading now
toISOString(now) == now

\* JSON.stringify of a ProjectProfile (types/index.ts:4-12)
stringifyProfile(p) ==
    JsonObject(<< <<"appDescription", JsonString(p.appDescription)>>,
                  <<"targetUsers", JsonString(p.targetUsers)>>,
                  <<"currentFeatures", JsonString(p.currentFeatures)>>,
                  <<"plannedFeatures", JsonString(p.plannedFeatures)>>,
                  <<"competitors",
                    JsonArray([i \in 1..Len(p.competitors) |-> JsonString(p.competitors[i])])>>,
                  <<"designIntent", JsonString(p.designIntent)>>,
                  <<"updatedAt", JsonString(p.updatedAt)>> >>)

\* part_001:273-286: the text written to .draftai.json
stringifyTeamConfig(store, now) ==
    JsonObject(<< <<"$schema", JsonString("https://draftai.dev/schema/v1")>>,
                  <<"profile", IF store.profile = <<>> THEN JsonNull
                               ELSE stringifyProfile(store.profile[1])>>,
                  <<"suppressedIssues",
                    JsonArray([i \in 1..Len(store.suppressedIssues) |->
                                  JsonString(store.suppressedIssues[i])])>>,
                  <<"scores",
                    JsonObject(<< <<"codeHealth", JsonNumber(store.scores.codeHealth)>>,
                                  <<"uiConsistency", JsonNumber(store.scores.uiConsistency)>>,
                                  <<"competitivePosition",
                                    JsonNumber(store.scores.competitivePosition)>> >>)>>,
                  <<"exportedAt", JsonString(toISOString(now))>> >>)

\* the property key of a parsed object, JsonNull standing for undefined too
jsonGet(object, key) ==
    IF \E i \in 1..Len(object.v) : object.v[i][1] = key
    THEN object.v[CHOOSE i \in 1..Len(object.v) : object.v[i][1] = key][2]
    ELSE JsonNull

\* JSON.parse of an object of strings and string arrays
parseProfile(object) ==
    [k \in {object.v[i][1] : i \in 1..Len(object.v)} |->
        LET value == jsonGet(object, k)
        IN  IF value.t = "array" THEN [i \in 1..Len(value.v) |-> value.v[i].v]
            ELSE value.v]

\* part_001:153-156
saveProfile(p, now) == <<[p EXCEPT !.updatedAt = toISOString(now)]>>

RECURSIVE suppressAll(_, _)
suppressAll(suppressed, ids) ==
    IF ids = <<>> THEN suppressed
    ELSE suppressAll(suppressIssue(suppressed, Head(ids).v), Tail(ids))

\* part_001:295-307: the store after the text has been read
importedStore(store, text, now) ==
    LET config == text
        withProfile == IF jsonGet(config, "profile").t = "object"
                       THEN [store EXCEPT
                                !.profile = saveProfile(parseProfile(jsonGet(config, "profile")),
                                                        now)]
                       ELSE store
    IN  IF jsonGet(config, "suppressedIssues").t = "array"
        THEN [withProfile EXCEPT
                 !.suppressedIssues = suppressAll(@, jsonGet(config, "suppressedIssues").v)]
        ELSE withProfile

\* a store nothing has been saved to
EmptyStore == [profile |-> <<>>, suppressedIssues |-> <<>>, scores |-> DefaultScores]

TeamProfile(competitors, updatedAt) ==
    [appDescription |-> "app", targetUsers |-> "users", currentFeatures |-> "now",
     plannedFeatures |-> "later", competitors |-> competitors, designIntent |-> "calm",
     updatedAt |-> toISOString(updatedAt)]

SuppressedChoices ==
    {ids \in UNION {[1..n -> {"sec-1", "ai-2", "cve-3"}] : n \in 0..MaxSuppressed} :
        \A i, j \in 1..Len(ids) : i # j => ids[i] # ids[j]}

TeamStores ==
    { [profile |-> p, suppressedIssues |-> ids, scores |-> s] :
        p \in {<<>>, <<TeamProfile(<<>>, 0)>>, <<TeamProfile(<<"Acme", "Bolt">>, 0)>>},
        ids \in SuppressedChoices,
        s \in {DefaultScores,
               [codeHealth |-> 85, uiConsistency |-> 75, competitivePosition |-> 50]} }

NoFile == [t |-> "none"]

InitTeam ==
    /\ HostIdle
    /\ \E store \in TeamStores :
          call = [fn |-> "teamConfig", now |-> 0, pc |-> "session", store |-> store,
                  source |-> EmptyStore, file |-> NoFile, imported |-> FALSE]

\* time passes between two operations
TeamClockTick ==
    /\ call.fn = "teamConfig" /\ call.now < MaxClock
    /\ call' = [call EXCEPT !.now = @ + 1]
    /\ UNCHANGED hostVars

\* part_001:270-287
ExportTeamConfig ==
    /\ call.fn = "teamConfig" /\ call.pc = "session"
    /\ call' = [call EXCEPT !.file = stringifyTeamConfig(call.store, call.now),
                            !.source = call.store]
    /\ UNCHANGED hostVars

\* another session opens the workspace with an empty store
TeamFreshSession ==
    /\ call.fn = "teamConfig" /\ call.pc = "session"
    /\ call' = [call EXCEPT !.pc = "fresh", !.store = EmptyStore]
    /\ UNCHANGED hostVars

\* part_001:289-311, called at activation (extension.ts:45)
ImportTeamConfig ==
    /\ call.fn = "teamConfig" /\ call.pc = "fresh"
    /\ IF call.file = NoFile
       THEN call' = [call EXCEPT !.pc = "imported", !.imported = FALSE]
       ELSE call' = [call EXCEPT !.pc = "imported", !.imported = TRUE,
                                 !.store = importedStore(call.store, call.file, call.now)]
    /\ UNCHANGED hostVars

NextTeam ==
    \/ TeamClockTick
    \/ ExportTeamConfig
    \/ TeamFreshSession
    \/ ImportTeamConfig

SpecTeam == InitTeam /\ [][NextTeam]_vars

(***************************************************************************)
(* StorageService.saveScanResult and addChatMessage (part_001:164-213).    *)
(* A scan result or chat message is the number of its arrival.             *)
(***************************************************************************)

ChatHistoryCap == 100

MaxSaves == 51
MaxChats == 101

\* part_001:207-213: push, then history.splice(0, history.length - 100)
addChatMessage(history, message) ==
    LET h == Append(history, message)
    IN  IF Len(h) > ChatHistoryCap
        THEN SubSeq(h, Len(h) - ChatHistoryCap + 1, Len(h))
        ELSE h

InitHistory ==
    /\ HostIdle
    /\ call = [fn |-> "history", scanHistory |-> <<>>, chatHistory |-> <<>>,
               nScans |-> 0, nChats |-> 0]

\* part_001:168-174
CallSaveScanResult ==
    /\ call.fn = "history" /\ call.nScans < MaxSaves
    /\ call' = [call EXCEPT !.nScans = @ + 1,
                            !.scanHistory = saveScanResult(@, call.nScans + 1)]
    /\ UNCHANGED hostVars

\* part_001:207-213
CallAddChatMessage ==
    /\ call.fn = "history" /\ call.nChats < MaxChats
    /\ call' = [call EXCEPT !.nChats = @ + 1,
                            !.chatHistory = addChatMessage(@, call.nChats + 1)]
    /\ UNCHANGED hostVars

NextHistory ==
    \/ CallSaveScanResult
    \/ CallAddChatMessage

SpecHistory == InitHistory /\ [][NextHistory]_vars

(***************************************************************************)
(* The external calls and their timers: LongCatService.chat, lite and      *)
(* chatStream (longcat.ts:40-161), TavilyService.search (tavily.ts:31-79). *)
(* Time is in milliseconds and advances in steps.  What the client library *)
(* throws when its signal is aborted is the library's choice.              *)
(***************************************************************************)

TIMEOUT_CHAT_MS == 30000
TIMEOUT_ANALYZE_MS == 90000
TAVILY_TIMEOUT_MS == 15000

ClockStepMs == 5000
MaxOverrunSteps == 2

ExternalApis == {"chat", "lite", "chatStream", "search"}

\* the delay given to setTimeout
timeoutOf(api) ==
    IF api = "search" THEN TAVILY_TIMEOUT_MS
    ELSE IF api = "chatStream" THEN TIMEOUT_ANALYZE_MS
    ELSE TIMEOUT_CHAT_MS

NoError == [name |-> "none", message |-> "none"]

\* the rejection of an aborted request: fetch rejects with an AbortError, the AI
\* client with an error of its own naming
AbortRejections(api) ==
    IF api = "search" THEN {[name |-> "AbortError", message |-> "aborted"]}
    ELSE {[name |-> "AbortError", message |-> "aborted"],
          [name |-> "APIUserAbortError", message |-> "aborted"]}

\* any other rejection: the network, the service, a reply that is not JSON
OtherRejection == [name |-> "Error", message |-> "failed"]

TimedOutError == [name |-> "Error", message |-> "timed out"]

\* the error the caller receives for a rejection err (longcat.ts:66-70, 93-97,
\* 151-160; tavily.ts:71-78)
thrownToCaller(api, err, aborted) ==
    IF api = "chatStream" THEN (IF err.name = "AbortError" \/ aborted THEN TimedOutError
                                ELSE err)
    ELSE IF api = "search" THEN (IF err.name = "AbortError" THEN TimedOutError ELSE err)
    ELSE err

InProgressPcs == {"pending", "streaming", "body"}

InitExternal ==
    /\ HostIdle
    /\ \E api \in ExternalApis :
          call = [fn |-> "externalCall", api |-> api, pc |-> "pending", elapsed |-> 0,
                  timer |-> "armed", error |-> NoError]

\* time passes while the request is under way; an armed timer fires at its delay
ExternalClockTick ==
    /\ call.fn = "externalCall" /\ call.pc \in InProgressPcs
    /\ call.timer = "armed" => call.elapsed < timeoutOf(call.api)
    /\ call.elapsed < timeoutOf(call.api) + MaxOverrunSteps * ClockStepMs
    /\ call' = [call EXCEPT !.elapsed = @ + ClockStepMs]
    /\ UNCHANGED hostVars

\* the timer fires: controller.abort(), the request rejects, the catch and finally
\* blocks run
ExternalTimerFires ==
    /\ call.fn = "externalCall" /\ call.pc \in InProgressPcs
    /\ call.timer = "armed" /\ call.elapsed >= timeoutOf(call.api)
    /\ \E err \in AbortRejections(call.api) :
          call' = [call EXCEPT !.pc = "thrown", !.timer = "fired",
                               !.error = thrownToCaller(call.api, err, TRUE)]
    /\ UNCHANGED hostVars

\* the service answers: chat and lite return, chatStream starts to yield, search
\* returns response.json() and its finally block clears the timer
ExternalResponds ==
    /\ call.fn = "externalCall" /\ call.pc = "pending"
    /\ call.elapsed < timeoutOf(call.api)
    /\ call' = IF call.api = "chatStream" THEN [call EXCEPT !.pc = "streaming"]
               ELSE IF call.api = "search"
                    THEN [call EXCEPT !.pc = "body", !.timer = "cleared"]
               ELSE [call EXCEPT !.pc = "returned", !.timer = "cleared"]
    /\ UNCHANGED hostVars

\* the stream ends, or the body of the search reply has been read
ExternalCompletes ==
    /\ call.fn = "externalCall" /\ call.pc \in {"streaming", "body"}
    /\ call.timer = "armed" => call.elapsed < timeoutOf(call.api)
    /\ call' = [call EXCEPT !.pc = "returned", !.timer = "cleared"]
    /\ UNCHANGED hostVars

\* the request fails for another reason than its timer
ExternalFails ==
    /\ call.fn = "externalCall" /\ call.pc \in InProgressPcs
    /\ call.timer = "armed" => call.elapsed < timeoutOf(call.api)
    /\ call' = [call EXCEPT !.pc = "thrown", !.timer = "cleared",
                            !.error = thrownToCaller(call.api, OtherRejection, FALSE)]
    /\ UNCHANGED hostVars

NextExternal ==
    \/ ExternalClockTick
    \/ ExternalTimerFires
    \/ ExternalResponds
    \/ ExternalCompletes
    \/ ExternalFails

SpecExternal == InitExternal /\ [][NextExternal]_vars

(***************************************************************************)
(* OSVService.scanDependencies (tavily.ts:192-258) with checkPackage       *)
(* (tavily.ts:158-186).  A dependency is its place in Object.entries.      *)
(***************************************************************************)

BATCH_SIZE == 5

MaxDeps == 7

\* how reading package.json can end
ManifestOutcomes == {"missing", "unparsable", "read"}

\* checkPackage: vulnerabilities, none, or a failure (not ok, rejection, timeout),
\* which it turns into none
LookupOutcomes == {"found", "none", "fails"}

\* a plausible slip: every dependency is looked up at once
osvBatchAll(i, n) == (i + 1)..n

\* entries.slice(i, i + BATCH_SIZE), as places counted from 1
osvBatch(i, n) == (i + 1)..Min(i + BATCH_SIZE, n)

\* the status of every dependency once the batch after the first i entries has
\* been mapped: a dependency without a version resolves at once
startBatch(status, i, n, noVersion) ==
    [k \in 1..n |->
        IF k \in osvBatch(i, n)
        THEN (IF k \in noVersion THEN "noVersion" ELSE "inFlight")
        ELSE status[k]]

\* the issues of the batch, in the order of its entries
RECURSIVE batchIssues(_, _, _)
batchIssues(status, k, last) ==
    IF k > last THEN <<>>
    ELSE (IF status[k] = "found" THEN <<CveFinding(uuid(k))>> ELSE <<>>)
         \o batchIssues(status, k + 1, last)

InitOsv ==
    /\ HostIdle
    /\ \E n \in 0..MaxDeps, noVersion \in {{}, {3}} :
          call = [fn |-> "scanDependencies", n |-> n, noVersion |-> noVersion,
                  pc |-> "start", manifest |-> "none", i |-> 0,
                  status |-> [k \in 1..n |-> "waiting"], lookups |-> [k \in 1..n |-> 0],
                  issues |-> <<>>]

\* tavily.ts:193-241: package.json is read and the first batch is issued
OsvScanStarts ==
    /\ call.fn = "scanDependencies" /\ call.pc = "start"
    /\ \E manifest \in ManifestOutcomes :
          IF manifest # "read" \/ call.n = 0
          THEN call' = [call EXCEPT !.pc = "done", !.manifest = manifest]
          ELSE LET batch == osvBatch(0, call.n)
               IN  call' = [call EXCEPT
                       !.pc = "batch", !.manifest = manifest,
                       !.status = startBatch(@, 0, call.n, call.noVersion),
                       !.lookups = [k \in 1..call.n |->
                                       IF k \in batch \ call.noVersion THEN 1 ELSE 0]]
    /\ UNCHANGED hostVars

\* tavily.ts:158-186: one lookup in flight settles
OsvLookupSettles ==
    /\ call.fn = "scanDependencies" /\ call.pc = "batch"
    /\ \E k \in 1..call.n, outcome \in LookupOutcomes :
          /\ call.status[k] = "inFlight"
          /\ call' = [call EXCEPT !.status[k] = outcome]
    /\ UNCHANGED hostVars

\* tavily.ts:238-252: Promise.all resolves, the issues of the batch are pushed, and
\* the next batch is issued or the scan returns
OsvBatchSettled ==
    /\ call.fn = "scanDependencies" /\ call.pc = "batch"
    /\ \A k \in 1..call.n : call.status[k] # "inFlight"
    /\ LET batch == osvBatch(call.i, call.n)
           last == IF batch = {} THEN call.i ELSE CHOOSE k \in batch : \A j \in batch : j <= k
           issues == call.issues \o batchIssues(call.status, call.i + 1, last)
           next == call.i + BATCH_SIZE
       IN  IF next >= call.n
           THEN call' = [call EXCEPT !.pc = "done", !.i = next, !.issues = issues]
           ELSE call' = [call EXCEPT
                   !.i = next, !.issues = issues,
                   !.status = startBatch(@, next, call.n, call.noVersion),
                   !.lookups = [k \in 1..call.n |->
                                   IF k \in osvBatch(next, call.n) \ call.noVersion
                                   THEN call.lookups[k] + 1 ELSE call.lookups[k]]]
    /\ UNCHANGED hostVars

NextOsv ==
    \/ OsvScanStarts
    \/ OsvLookupSettles
    \/ OsvBatchSettled

SpecOsv == InitOsv /\ [][NextOsv]_vars

(***************************************************************************)
(* The three orchestrators side by side: one run of runScan, runResearch   *)
(* or runAudit with the progress events it reports.                        *)
(***************************************************************************)

InitRun == InitScan \/ InitResearch \/ InitAudit

NextRun == NextScan \/ NextResearch \/ NextAudit

SpecRun == InitRun /\ [][NextRun]_vars

(***************************************************************************)
(* A tab of the webview and the run request it sends: CodeHealthTab        *)
(* (part_006:392-417), CompetitorTab (CompetitorTab.tsx:11-36), UIAuditTab *)
(* (part_005:52-68), with what the handlers of extension.ts post back.     *)
(***************************************************************************)

Tabs == {"codeHealth", "competitor", "uiAudit"}

\* the value of activeOperation when the request reaches its guard
Holders == {"null", "Code Health Scan", "auto-scan", "Competitor Research", "UI/UX Audit"}

Message(type, status) == [type |-> type, status |-> status]

\* the request a tab sends
requestOf(tab) ==
    IF tab = "codeHealth" THEN "runScan"
    ELSE IF tab = "competitor" THEN "runResearch" ELSE "runAudit"

\* the operation a holder of the flag is
operationOf(holder) ==
    IF holder = "Code Health Scan" THEN "runScan"
    ELSE IF holder = "auto-scan" THEN "autoScan"
    ELSE IF holder = "Competitor Research" THEN "runResearch" ELSE "runAudit"

\* what a run that completes has posted when its handler is through
\* (extension.ts:59-67, 183-213, 287-307, 362-387)
completedMessages(operation) ==
    IF operation = "runScan"
    THEN <<Message("scanProgress", "complete"), Message("scanComplete", "none"),
           Message("scoresUpdated", "none")>>
    ELSE IF operation = "autoScan"
    THEN <<Message("scanComplete", "none"), Message("scoresUpdated", "none")>>
    ELSE IF operation = "runResearch"
    THEN <<Message("researchProgress", "complete"), Message("researchComplete", "none"),
           Message("scoresUpdated", "none")>>
    ELSE <<Message("auditProgress", "complete"), Message("auditComplete", "none"),
           Message("scoresUpdated", "none")>>

\* what the catch block of a handler posts (extension.ts:68-69, 228-233, 313-318,
\* 393-398)
failedMessages(operation) ==
    IF operation = "runScan" THEN <<Message("scanProgress", "error")>>
    ELSE IF operation = "autoScan" THEN <<>>
    ELSE IF operation = "runResearch" THEN <<Message("researchProgress", "error")>>
    ELSE <<Message("error", "none")>>

\* handleMessage of a tab: the running indicator after a message
handleMessage(tab, running, msg) ==
    IF tab = "codeHealth"
    THEN (IF msg.type = "scanComplete" THEN FALSE
          ELSE IF msg.type = "scanProgress" /\ msg.status = "complete" THEN FALSE
          ELSE running)
    ELSE IF tab = "competitor"
    THEN (IF msg.type = "researchComplete" THEN FALSE
          ELSE IF msg.type = "researchProgress" /\ msg.status = "complete" THEN FALSE
          ELSE running)
    ELSE (IF msg.type = "auditComplete" THEN FALSE ELSE running)

InitTab ==
    /\ HostIdle
    /\ \E tab \in Tabs, holder \in Holders, hasProfile \in BOOLEAN :
          call = [fn |-> "tab", tab |-> tab, holder |-> holder, hasProfile |-> hasProfile,
                  pc |-> "idle", running |-> FALSE, inbox |-> <<>>, outcome |-> "none"]

\* handleRun, handleRunScan: the button is pressed
TabHandleRun ==
    /\ call.fn = "tab" /\ call.pc = "idle" /\ ~call.running
    /\ call' = [call EXCEPT !.pc = "detect", !.running = TRUE]
    /\ UNCHANGED hostVars

\* the operation that holds the flag ends and its handler posts what it posts
TabHolderEnds ==
    /\ call.fn = "tab" /\ call.holder # "null"
    /\ \E messages \in {completedMessages(operationOf(call.holder)),
                        failedMessages(operationOf(call.holder))} :
          call' = [call EXCEPT !.holder = "null", !.inbox = @ \o messages]
    /\ UNCHANGED hostVars

\* detect() is back: the profile check of runResearch and runAudit, then the guard
\* (extension.ts:163-175, 257-279, 334-356)
TabRequestGuarded ==
    /\ call.fn = "tab" /\ call.pc = "detect"
    /\ IF requestOf(call.tab) # "runScan" /\ ~call.hasProfile
       THEN call' = [call EXCEPT !.pc = "ended", !.outcome = "noProfile",
                                 !.inbox = Append(@, Message("error", "none"))]
       ELSE IF isBusy(call.holder)
       THEN call' = [call EXCEPT !.pc = "ended", !.outcome = "rejected"]
       ELSE call' = [call EXCEPT !.pc = "run"]
    /\ UNCHANGED hostVars

\* the run ends: it completes, or it throws and the catch block posts the error
TabRunEnds ==
    /\ call.fn = "tab" /\ call.pc = "run"
    /\ \E outcome \in {"completed", "failed"} :
          call' = [call EXCEPT
              !.pc = "ended", !.outcome = outcome,
              !.inbox = @ \o (IF outcome = "completed"
                              THEN completedMessages(requestOf(call.tab))
                              ELSE failedMessages(requestOf(call.tab)))]
    /\ UNCHANGED hostVars

\* the tab receives the next message posted to the webview
TabReceives ==
    /\ call.fn = "tab" /\ call.inbox # <<>>
    /\ call' = [call EXCEPT !.inbox = Tail(@),
                            !.running = handleMessage(call.tab, @, Head(call.inbox))]
    /\ UNCHANGED hostVars

NextTab ==
    \/ TabHandleRun
    \/ TabHolderEnds
    \/ TabRequestGuarded
    \/ TabRunEnds
    \/ TabReceives

SpecTab == InitTab /\ [][NextTab]_vars

\* every handler step and every message delivery that can happen does happen
SpecTabFair == SpecTab /\ WF_vars(NextTab)

(***************************************************************************)
(* Properties                                                              *)
(***************************************************************************)

LongRunning == {"runScan", "autoScan", "runResearch", "runAudit"}

\* the handler run t is between setting the busy flag and its finally block
InProgress(t) ==
    \/ tasks[t].kind \in LongRunning /\ tasks[t].pc \in {"run", "saved", "scored"}
    \/ tasks[t].kind = "autoScan" /\ tasks[t].pc = "detect"

\* C1: at every moment at most one long-running operation (user scan, auto-scan,
\* research, audit) is in progress; two orchestrator calls never overlap, whatever
\* the interleaving of webview messages and timer ticks, two of one kind included
C1_AtMostOneOperation ==
    \A t, u \in TaskIds : InProgress(t) /\ InProgress(u) => t = u

\* a scan is running while a second runScan trigger and a research trigger wait
\* at their first await
C1_Witness ==
    \E t, u, v \in TaskIds :
        /\ tasks[t].kind = "runScan" /\ tasks[t].pc = "run"
        /\ tasks[u].kind = "runScan" /\ tasks[u].pc = "detect"
        /\ tasks[v].kind = "runResearch" /\ tasks[v].pc = "detect"

\* C2 as stated: a runScan trigger that arrived while an earlier scan was running
\* never invokes scanner.runScan
C2_ArrivedDuringScanNeverRuns ==
    \A t \in TaskIds :
        tasks[t].kind = "runScan" /\ tasks[t].arrivedDuringScan
            => ~tasks[t].invoked

\* C2 amended: a runScan trigger that finds the busy flag set when it reaches the
\* guard (after its stack detection) is rejected with the "already running" notice:
\* it does not invoke scanner.runScan then or later, posts nothing, saves nothing to
\* scan history or scores, and leaves the flag with its holder
C2_RejectedAtGuard ==
    [][\A t \in TaskIds :
          /\ (/\ tasks[t].kind = "runScan" /\ tasks[t].pc = "detect"
              /\ activeOperation # NoOp
              /\ tasks'[t] # tasks[t])
                => /\ notices' = {"alreadyRunning"}
                   /\ posted' = {}
                   /\ tasks'[t] = DoneTask
                   /\ UNCHANGED <<activeOperation, scanHistory, scores>>
          /\ tasks[t] = DoneTask => tasks'[t] = DoneTask]_vars

\* a second runScan trigger has just been rejected while a scan holds the flag
C2_Witness ==
    /\ ended = End("runScan", "rejected")
    /\ activeOperation = "Code Health Scan"
    /\ notices = {"alreadyRunning"}

\* C3: a timer tick that fires while any operation holds the busy flag does nothing
\* for that cycle: it starts no scan, writes no state, raises no notice, and is not
\* deferred (no auto-scan run exists that did not take the flag when it fired)
C3_BusyTickDoesNothing ==
    [][/\ (activeOperation # NoOp /\ nTriggers' # nTriggers)
            => /\ tasks'[nTriggers'].kind # "autoScan"
               /\ ended'.kind = "autoScan"
                    => /\ tasks'[nTriggers'] = DoneTask
                       /\ notices' = {} /\ posted' = {}
                       /\ UNCHANGED <<activeOperation, storeVars>>
       /\ \A t \in TaskIds : tasks[t] = DoneTask => tasks'[t] = DoneTask]_vars

\* a tick has just been skipped while an audit holds the flag
C3_Witness ==
    /\ ended = End("autoScan", "skipped")
    /\ activeOperation = "UI/UX Audit"

\* C4: the busy flag is always released: once no scan, auto-scan, research or audit
\* run is in progress, whether the last one returned or threw (also while saving),
\* activeOperation is null, so a later trigger is accepted
C4_FlagReleased ==
    /\ (\A t \in TaskIds : ~InProgress(t)) => activeOperation = NoOp
    /\ ended.kind \in LongRunning /\ ended.outcome \in {"completed", "failed"}
          => activeOperation = NoOp

\* a scan has just failed while saving its scores, with the flag free again
C4_Witness ==
    /\ ended = End("runScan", "failed")
    /\ Len(scanHistory) > 0
    /\ activeOperation = NoOp

tupleKey(issue) ==
    <<issue.file, issue.line, slice(toLowerCase(issue.title), 0, 30)>>

\* the places of the findings that are the first of their key in the list
FirstOfKey(issues) ==
    {i \in 1..Len(issues) : \A j \in 1..(i - 1) : tupleKey(issues[j]) # tupleKey(issues[i])}

\* C5: the merge of the local, AI and vulnerability findings has at most one finding
\* per key (file, line, first 30 characters of the lower-cased title), is never
\* longer than the input, and of the input findings that share a key exactly the
\* first in input order survives
C5_FirstPerKeySurvives ==
    call.fn = "deduplicateIssues" /\ call.done
        => /\ Len(call.allIssues) <= Len(call.issues)
           /\ \A i, j \in 1..Len(call.allIssues) :
                 tupleKey(call.allIssues[i]) = tupleKey(call.allIssues[j]) => i = j
           /\ Range(call.allIssues) = {call.issues[i] : i \in FirstOfKey(call.issues)}

activeCount(issues, severity) ==
    Cardinality({i \in 1..Len(issues) :
                    issues[i].severity = severity /\ ~issues[i].suppressed})

\* C6: the health score is max(0, 100 - total penalty), each active (non-suppressed)
\* finding counting 15 when critical, 5 when a warning, 1 when a suggestion, and
\* suppressed findings nothing; with no active finding it is exactly 100
C6_ScoreFormula ==
    call.fn = "computeHealthScore" /\ call.done
        => /\ call.firstScore =
                 Max(0, 100 - (15 * activeCount(call.first, "critical")
                               + 5 * activeCount(call.first, "warning")
                               + 1 * activeCount(call.first, "suggestion")))
           /\ (\A i \in 1..Len(call.first) : call.first[i].suppressed)
                 => call.firstScore = 100

\* a list with a suppressed critical finding next to active ones has been scored
C6_Witness ==
    /\ call.fn = "computeHealthScore" /\ call.done
    /\ \E i \in 1..Len(call.first) : call.first[i].suppressed
    /\ activeCount(call.first, "critical") = 2
    /\ activeCount(call.first, "warning") = 1
    /\ call.firstScore = 65

\* the second list has at least as many active findings of each severity
dominates(second, first) ==
    \A severity \in {"critical", "warning", "suggestion"} :
        activeCount(second, severity) >= activeCount(first, severity)

\* C7: when the second list has at least as many active critical, warning and
\* suggestion findings as the first, its health score is at most the first's;
\* every health score is an integer in [0,100]
C7_ScoreMonotoneAndBounded ==
    call.fn = "computeHealthScore" /\ call.done
        => /\ dominates(call.second, call.first) => call.secondScore <= call.firstScore
           /\ call.firstScore \in 0..100
           /\ call.secondScore \in 0..100

\* the second list has more active findings, enough to pass the floor
C7_Witness ==
    /\ call.fn = "computeHealthScore" /\ call.done
    /\ dominates(call.second, call.first)
    /\ activeCount(call.second, "critical") = 7
    /\ call.secondScore = 0
    /\ call.firstScore \in 1..99

\* the findings whose ids are not in the suppressed-id list
notSuppressed(issues, suppressed) ==
    LET Live(issue) == issue.id \notin Range(suppressed)
    IN  SelectSeq(issues, Live)

\* C8: once a finding id is suppressed, the health score of the next scan
\* (ScanResult.healthScore, and the codeHealth gauge saved from it) equals the score
\* over the findings whose ids are not in the suppressed-id list
C8_NextScoreLeavesOutSuppressed ==
    [][(scanHistory' # scanHistory /\ activeOperation = "Code Health Scan")
          => Head(scanHistory').healthScore =
                computeHealthScore(notSuppressed(Head(scanHistory').issues, suppressedIssues))]_vars

\* C9: every scan result, when a user scan or an auto-scan stores it, has each
\* finding whose id is in the suppressed-id list marked suppressed = true
C9_StoredSuppressedAreMarked ==
    [][scanHistory' # scanHistory
          => \A i \in 1..Len(Head(scanHistory').issues) :
                Head(scanHistory').issues[i].id \in Range(suppressedIssues)
                    => Head(scanHistory').issues[i].suppressed]_vars

\* the changed files with a scannable extension, as paths under the workspace root
scannableChanged(changedFiles) ==
    LET joined == [i \in 1..Len(changedFiles) |-> WorkspaceRoot \o <<"/">> \o changedFiles[i]]
        Scannable(p) == extname(p) \in SCANNABLE_EXTENSIONS
    IN  SelectSeq(joined, Scannable)

\* C10: in git-aware mode inside a repository the scan set is the full scannable
\* set when the changed-file list is empty, and exactly the changed files with a
\* scannable extension when it is not
C10_ChangedFilesSelected ==
    (call.fn = "selectFiles" /\ call.done /\ call.gitAware /\ call.isGitRepo)
        => IF call.changedFiles = <<>>
           THEN call.filesToScan = (IF call.findThrows THEN <<>> ELSE call.found)
           ELSE call.filesToScan = scannableChanged(call.changedFiles)

\* C11: no chunk the chunk builder returns is longer than the character budget
\* (MAX_CHUNK_TOKENS x CHARS_PER_TOKEN = 16000); a single file block that alone
\* exceeds the budget is truncated to exactly the budget
C11_ChunksWithinBudget ==
    call.fn = "buildChunks" /\ call.done
        => \A k \in 1..Len(call.chunks) :
              /\ textLength(call.chunks[k]) <= 16000
              /\ \A p \in 1..Len(call.chunks[k]) :
                    LET piece == call.chunks[k][p]
                    IN  (piece.of > 0 /\ 115 + Len(call.files[piece.of].relPath)
                                             + call.files[piece.of].size > 16000)
                            => piece.chars = 16000 /\ Len(call.chunks[k]) = 1

\* the files of the list that are read into a block
inChunks(chunks) ==
    UNION {{chunks[k][p].of : p \in 1..Len(chunks[k])} : k \in 1..Len(chunks)} \ {0}

\* C12: the chunk builder never returns more than 10 chunks (one AI analysis call is
\* made per chunk, so at most 10 per scan); the chunks kept are the first in file
\* order: their files are in the order of the list, and no file left out comes before
\* a file kept unless it is unreadable or oversized
C12_AtMostTenChunksInFileOrder ==
    call.fn = "buildChunks" /\ call.done
        => /\ Len(call.chunks) <= 10
           /\ \A k, l \in 1..Len(call.chunks) :
                 \A p \in 1..Len(call.chunks[k]), q \in 1..Len(call.chunks[l]) :
                    (k < l \/ (k = l /\ p < q))
                       /\ call.chunks[k][p].of > 0 /\ call.chunks[l][q].of > 0
                       => call.chunks[k][p].of < call.chunks[l][q].of
           /\ \A i, j \in 1..Len(call.files) :
                 (i < j /\ j \in inChunks(call.chunks) /\ i \notin inChunks(call.chunks))
                    => ~call.files[i].readable \/ call.files[i].size > 100000

\* eleven files that each fill a chunk: ten chunks are returned, the last file dropped
C12_Witness ==
    /\ call.fn = "buildChunks" /\ call.done
    /\ Len(call.chunks) = 10
    /\ \E i \in 1..Len(call.files) :
          /\ call.files[i].readable /\ call.files[i].size <= 100000
          /\ i \notin inChunks(call.chunks)

\* C13: runResearch checks its preconditions in the order competitors, search
\* credential, AI credential; the first that fails decides the error, and then no
\* search call and no AI call is made (a profile without competitors fails at once
\* with the "no competitors" error)
C13_FirstFailingPrecondition ==
    (call.fn = "runResearch" /\ call.pc # "start")
        => LET expected == IF Len(call.competitors) = 0 THEN "noCompetitors"
                           ELSE IF ~call.searchReady THEN "noSearchKey"
                           ELSE IF ~call.aiReady THEN "noAiKey"
                           ELSE "none"
           IN  /\ call.error = expected
               /\ expected # "none"
                     => call.pc = "failed" /\ call.searchCalls = 0 /\ call.aiCalls = 0
                        /\ call.progress = <<>>

\* no competitors and no credential at all: the run has failed with "no competitors"
C13_Witness ==
    /\ call.fn = "runResearch" /\ call.pc = "failed"
    /\ call.competitors = <<>> /\ ~call.searchReady /\ ~call.aiReady
    /\ call.error = "noCompetitors"

\* C14: a scan run while the AI credential is absent sends no chunk to the AI, has
\* no AI finding, and returns the deduplicated local and vulnerability findings with
\* a health score between 0 and 100
C14_NoAiWithoutCredential ==
    (call.fn = "runScan" /\ ~call.aiReady)
        => /\ call.sent = <<>> /\ call.aiIssues = <<>>
           /\ call.pc = "done"
                 => /\ call.result.type = "scan"
                    /\ call.result.issues
                         = deduplicateIssues(call.localIssues \o call.cveIssues)
                    /\ \A i \in 1..Len(call.result.issues) :
                          call.result.issues[i].id # AiId(uuid(1))
                          /\ call.result.issues[i].id # AiId(uuid(2))
                    /\ call.result.healthScore \in 0..100

\* no credential, a file the analyzers read and a vulnerable dependency: both
\* findings are returned
C14_Witness ==
    /\ call.fn = "runScan" /\ ~call.aiReady /\ call.pc = "done"
    /\ Len(call.localIssues) > 0 /\ Len(call.cveIssues) > 0
    /\ Len(call.result.issues) = Len(call.localIssues) + 1

mergedPenalty(area) ==
    LET fs == call.result.findings
        pen(i) == IF fs[i].area # area THEN 0
                  ELSE IF fs[i].severity = "critical" THEN 15
                  ELSE IF fs[i].severity = "warning" THEN 8 ELSE 3
        RECURSIVE sum(_)
        sum(i) == IF i = 0 THEN 0 ELSE pen(i) + sum(i - 1)
    IN  sum(Len(fs))

C16_TeamConfigRoundTrip ==
    (call.fn = "teamConfig" /\ call.pc = "imported" /\ call.imported)
        => /\ call.store.profile = call.source.profile
           /\ Range(call.store.suppressedIssues) = Range(call.source.suppressedIssues)

\* the place of a progress status in the order starting, local, ai, cve, complete
stageRank(status) ==
    IF status = "starting" THEN 1 ELSE IF status = "local" THEN 2
    ELSE IF status = "ai" THEN 3 ELSE IF status = "cve" THEN 4 ELSE 5

\* the statuses a scan has emitted so far
emitted == {call.progress[i].status : i \in 1..Len(call.progress)}

\* no status of an earlier stage follows one of a later stage
progressOrdered ==
    \A i, j \in 1..Len(call.progress) :
        i < j => stageRank(call.progress[i].status) <= stageRank(call.progress[j].status)

\* C17 as stated: the statuses of one runScan are in the order starting, local, ai,
\* cve, complete; a finished run has emitted each of the five, and complete last
C17_EveryStageInOrder ==
    call.fn = "runScan"
        => /\ progressOrdered
           /\ call.pc = "done"
                 => /\ emitted = {"starting", "local", "ai", "cve", "complete"}
                    /\ call.progress[Len(call.progress)].status = "complete"

\* C17 amended: the statuses are in that order, a finished run has emitted
\* starting, local, cve and complete with complete last and only once, whatever
\* failed in the AI or CVE stage; it has emitted ai too, except when the AI
\* credential is set and there was no chunk to send
C17_StagesInOrder ==
    call.fn = "runScan"
        => /\ progressOrdered
           /\ "complete" \in emitted => call.pc = "done"
           /\ call.pc = "done"
                 => /\ {"starting", "local", "cve", "complete"} \subseteq emitted
                    /\ call.progress[Len(call.progress)].status = "complete"
                    /\ \A i \in 1..(Len(call.progress) - 1) :
                          call.progress[i].status # "complete"
                    /\ "ai" \in emitted <=> ~(call.aiReady /\ call.chunks = <<>>)

\* the credential is set, no file could be put in a chunk, the vulnerability check
\* threw: the run is complete and has emitted no ai status
C17_Witness ==
    /\ call.fn = "runScan" /\ call.pc = "done"
    /\ call.aiReady /\ call.chunks = <<>> /\ call.cve = "throws"
    /\ emitted = {"starting", "local", "cve", "complete"}

\* C18: a chunk whose call throws or whose reply cannot be parsed does not stop the
\* other chunks: each chunk is sent exactly once and in turn, the findings of the
\* chunks before and after it are kept, and it contributes no finding itself
C18_ChunkFailureIsolated ==
    call.fn = "runScan"
        => /\ call.sent = [k \in 1..Len(call.sent) |-> k]
           /\ Len(call.sent) <= Len(call.chunks)
           /\ call.pc \in {"cve", "done"} => Len(call.sent) = Len(call.chunks)
           /\ \A k \in 1..Len(call.sent) :
                 LET fromChunk == {i \in 1..Len(call.aiIssues) :
                                      call.aiIssues[i].id = "ai-u" \o ToString(k)}
                 IN  /\ call.replies[k] \in {"throws", "unparsable"} => fromChunk = {}
                     /\ call.replies[k] = "json"
                           => /\ Cardinality(fromChunk) = 1
                              /\ call.pc = "done"
                                    => \E i \in 1..Len(call.result.issues) :
                                          call.result.issues[i].id = "ai-u" \o ToString(k)

\* the call for the first chunk threw, the second chunk was sent and its finding is
\* in the result
C18_Witness ==
    /\ call.fn = "runScan" /\ call.pc = "done"
    /\ call.replies = <<"throws", "json">>
    /\ call.sent = <<1, 2>>
    /\ \E i \in 1..Len(call.result.issues) : call.result.issues[i].id = "ai-u2"

\* a finished scan: complete was emitted last and a ScanResult is returned
scanCompleted ==
    /\ call.fn = "runScan" /\ call.pc = "done"
    /\ call.progress # <<>>
    /\ call.progress[Len(call.progress)] = [status |-> "complete", progress |-> 100]
    /\ call.result.type = "scan"
    /\ call.result.healthScore \in 0..100

\* C19: whatever fails on the way (git, reading files, AI calls or replies, the
\* vulnerability check), runScan eventually emits complete and returns a ScanResult
C19_ScanEventuallyCompletes == <>scanCompleted

\* git reports no repository, a file cannot be read, an AI call throws, an AI reply
\* cannot be parsed, the vulnerability check throws: the scan has completed with
\* the local finding of the file that could be read
C19_Witness ==
    /\ scanCompleted
    /\ call.git = "notARepo" /\ call.cve = "throws"
    /\ \E i \in 1..Len(call.workspace) : ~call.workspace[i].readable
    /\ "throws" \in Range(call.replies)
    /\ Len(call.result.issues) > 0

\* C20: every score the extension returns or stores is between 0 and 100: the
\* health score of every stored scan, the three scores of the stored audit, the
\* competitive score of the stored research, and the three gauges
C20_ScoresWithinRange ==
    /\ \A i \in 1..Len(scanHistory) : scanHistory[i].healthScore \in 0..100
    /\ auditResults.type = "audit"
          => /\ auditResults.designConsistencyScore \in 0..100
             /\ auditResults.accessibilityScore \in 0..100
             /\ auditResults.structureScore \in 0..100
    /\ competitorResults.type = "research"
          => competitorResults.competitiveScore \in 0..100
    /\ scores.codeHealth \in 0..100
    /\ scores.uiConsistency \in 0..100
    /\ scores.competitivePosition \in 0..100

\* C21: after any sequence of saveScanResult and addChatMessage calls the scan
\* history holds at most 50 results, most recent first, and the chat history at most
\* 100 messages in arrival order; over a cap the oldest entries are the ones
\* dropped and the entry just added is kept
C21_HistoriesCapped ==
    call.fn = "history"
        => LET s == call.scanHistory
               c == call.chatHistory
           IN  /\ Len(s) = (IF call.nScans < 50 THEN call.nScans ELSE 50)
               /\ \A i \in 1..Len(s) : s[i] = call.nScans - i + 1
               /\ Len(c) = (IF call.nChats < 100 THEN call.nChats ELSE 100)
               /\ \A i \in 1..Len(c) : c[i] = call.nChats - Len(c) + i

\* a fifty-first scan and a hundred-and-first message have been saved: the first of
\* each is gone, the last of each is kept
C21_Witness ==
    /\ call.fn = "history" /\ call.nScans = 51 /\ call.nChats = 101
    /\ Len(call.scanHistory) = 50 /\ call.scanHistory[1] = 51 /\ call.scanHistory[50] = 2
    /\ Len(call.chatHistory) = 100 /\ call.chatHistory[1] = 2
    /\ call.chatHistory[100] = 101

\* C22: when the gap-analysis call throws or its reply cannot be parsed, the gap
\* analysis is the minimal one built from the search results: one profile per
\* searched competitor with its first three result titles as features, no threats,
\* and the single placeholder note
C22_GapAnalysisFallback ==
    (call.fn = "runResearch" /\ call.pc \in {"roadmap", "done"}
        /\ call.gapReply \in {"throws", "unparsable"})
        => LET g == call.gapAnalysis
           IN  /\ Len(g.competitorProfiles) = Len(call.competitors)
               /\ \A i \in 1..Len(g.competitorProfiles) :
                     /\ g.competitorProfiles[i].name = call.competitors[i]
                     /\ LET titles == call.searchResults[i].results
                        IN  g.competitorProfiles[i].features
                              = [k \in 1..(IF Len(titles) < 3 THEN Len(titles) ELSE 3) |->
                                    titles[k]]
               /\ g.threats = <<>>
               /\ Len(g.opportunities) = 1

\* C23: when the roadmap call throws or its reply cannot be parsed, runResearch
\* still returns a result; its roadmap is empty, its competitive score is 50 and its
\* gap analysis is the one the first stage produced
C23_RoadmapFallback ==
    [][(call.fn = "runResearch" /\ call.pc = "roadmap" /\ call'.pc = "done"
          /\ call'.roadmapReply \in {"throws", "unparsable"})
       => /\ call'.result.type = "research"
          /\ call'.result.roadmap = <<>>
          /\ call'.result.competitiveScore = 50
          /\ call'.result.gapAnalysis = call.gapAnalysis
          /\ call'.gapAnalysis = call.gapAnalysis]_vars

\* the gap analysis parsed, the roadmap call threw: the result carries the parsed
\* gap analysis, no roadmap and score 50
C23_Witness ==
    /\ call.fn = "runResearch" /\ call.pc = "done"
    /\ call.gapReply = "json" /\ call.roadmapReply = "throws"
    /\ call.result.gapAnalysis.threats # <<>>
    /\ call.result.roadmap = <<>> /\ call.result.competitiveScore = 50

\* the fallback score of an area computed from the local findings alone, each
\* distinct finding counted once
localAreaScore(area) ==
    LET found == {f \in Range(call.localFindings) : f.area = area}
        count(severity) == Cardinality({f \in found : f.severity = severity})
        penalties == 15 * count("critical") + 8 * count("warning")
                       + 3 * count("suggestion")
    IN  IF found = {} THEN 75
        ELSE IF penalties > 100 THEN 0 ELSE 100 - penalties

\* C24: when the audit AI path fails or returns all-zero scores, each area score is
\* computed from the local findings alone (75 without findings, else 100 less 15
\* per critical, 8 per warning, 3 per suggestion, not below 0); findings of the AI
\* reply or of the URL comparison do not enter it
C24_FallbackFromLocalFindingsOnly ==
    (call.fn = "runAudit" /\ call.pc = "done" /\ call.usedFallback)
        => /\ call.result.designConsistencyScore = localAreaScore("design")
           /\ call.result.accessibilityScore = localAreaScore("accessibility")
           /\ call.result.structureScore = localAreaScore("structure")

\* C25: an external call (AI chat, AI lite, AI streaming, web search) that exceeds
\* its timeout is aborted, and its caller receives an error that says "timed out",
\* which no other failure says
C25_TimeoutsAbortAndSayTimedOut ==
    call.fn = "externalCall"
        => /\ call.pc \in {"pending", "streaming", "body"}
                 => call.elapsed <= (IF call.api = "search" THEN 15000
                                     ELSE IF call.api = "chatStream" THEN 90000
                                     ELSE 30000)
           /\ call.pc = "thrown"
                 => (call.timer = "fired" <=> call.error.message = "timed out")

\* the gauge a kind of run writes
gaugeOf(kind) ==
    IF kind \in {"runScan", "autoScan"} THEN "codeHealth"
    ELSE IF kind = "runResearch" THEN "competitivePosition"
    ELSE "uiConsistency"

\* C26: a run that stores its score changes only its own gauge (a scan codeHealth,
\* a research competitivePosition, an audit uiConsistency); the two other gauges
\* keep the values they had just before the save, and nothing else writes the
\* gauges, whatever the interleaving of the triggers
C26_OnlyOwnGaugeChanges ==
    [][/\ \A t \in TaskIds :
             (tasks[t].pc = "saved" /\ tasks'[t].pc = "scored")
                => \A g \in {"codeHealth", "uiConsistency", "competitivePosition"} :
                      g # gaugeOf(tasks[t].kind) => scores'[g] = scores[g]
       /\ scores' # scores
             => \E t \in TaskIds : tasks[t].pc = "saved" /\ tasks'[t].pc = "scored"]_vars

\* a research has just stored its gauge and the gauge of an earlier scan is still
\* there
C26_Witness ==
    /\ \E t \in TaskIds : tasks[t].kind = "runResearch" /\ tasks[t].pc = "scored"
    /\ scores.competitivePosition > 0
    /\ scores.codeHealth > 0

\* the dependencies whose lookup is in flight
inFlight == {k \in 1..call.n : call.status[k] = "inFlight"}

\* C27: during a dependency scan at most 5 lookups are in flight; they are issued
\* in batches of 5 consecutive dependencies, and none of a batch starts before all
\* of the batch before have settled; a lookup that fails contributes no finding and
\* stops neither its batch nor the later ones
C27_LookupsInBatchesOfFive ==
    call.fn = "scanDependencies"
        => /\ Cardinality(inFlight) <= 5
           /\ \A k \in inFlight :
                 /\ \A j \in 1..call.n : j + 5 <= k => call.status[j] \notin {"waiting", "inFlight"}
                 /\ \A j \in 1..call.n : call.status[j] = "waiting" => j > k
                 /\ \A j \in inFlight : (j - 1) \div 5 = (k - 1) \div 5
           /\ \A k \in 1..call.n : call.lookups[k] <= 1
           /\ (call.pc = "done" /\ call.manifest = "read")
                 => /\ \A k \in 1..call.n :
                          /\ call.status[k] \in {"found", "none", "fails", "noVersion"}
                          /\ call.lookups[k] = (IF call.status[k] = "noVersion" THEN 0 ELSE 1)
                          /\ call.status[k] = "found"
                                <=> \E p \in 1..Len(call.issues) :
                                       call.issues[p].id = "cve-CVE-1-u" \o ToString(k)
                    /\ Len(call.issues)
                         = Cardinality({k \in 1..call.n : call.status[k] = "found"})

\* seven dependencies: a lookup of the first batch failed, one of the second batch
\* found a vulnerability, and the scan has returned it
C27_Witness ==
    /\ call.fn = "scanDependencies" /\ call.pc = "done" /\ call.n = 7
    /\ call.status[2] = "fails" /\ call.status[1] = "found" /\ call.status[7] = "found"
    /\ Len(call.issues) = 2

\* C28: within one run of runScan, runResearch or runAudit the percentages reported
\* never decrease from one event to the next, each lies in 0..100, and 100 is
\* reported by the final complete event only (the percentages of the chunk and
\* search loops are also looked at for every count up to ten)
C28_ProgressMonotone ==
    call.fn \in {"runScan", "runResearch", "runAudit"}
        => LET p == call.progress
           IN  /\ \A i \in 1..Len(p) : p[i].progress \in 0..100
               /\ \A i \in 1..(Len(p) - 1) : p[i].progress <= p[i + 1].progress
               /\ \A i \in 1..Len(p) :
                     p[i].progress = 100
                        => i = Len(p) /\ p[i].status = "complete" /\ call.pc = "done"
               /\ call.pc = "done" => p[Len(p)].progress = 100
               /\ \A n \in 1..10 : \A i \in 0..(n - 1) :
                     /\ chunkProgress(i, n) \in 40..69
                     /\ searchProgress(i, n) \in 10..44
                     /\ i > 0 => /\ chunkProgress(i - 1, n) <= chunkProgress(i, n)
                                 /\ searchProgress(i - 1, n) <= searchProgress(i, n)

\* a scan that sent two chunks has reported 0, 10, 40, 40, 55, 80 and 100
C28_Witness ==
    /\ call.fn = "runScan" /\ call.pc = "done" /\ Len(call.sent) = 2
    /\ [i \in 1..Len(call.progress) |-> call.progress[i].progress]
         = <<0, 10, 40, 40, 55, 80, 100>>

\* C29: a research or audit request that ends in an error (no profile, no
\* competitors, a missing credential, or any other rejection of the run) or that is
\* rejected as already running writes nothing: from its arrival to its end each of
\* its steps leaves the scan history, the stored research and audit results and
\* the three gauges as they were
C29_FailedRequestWritesNothing ==
    [][\A t \in TaskIds :
          LET kind == IF tasks[t].kind = "none" THEN tasks'[t].kind ELSE tasks[t].kind
          IN  (/\ tasks'[t] # tasks[t]
               /\ kind \in {"runResearch", "runAudit"}
               /\ tasks[t].pc \in {"idle", "detect", "run"}
               /\ tasks'[t].pc \in {"detect", "run", "done"})
                 => /\ scanHistory' = scanHistory
                    /\ scores' = scores
                    /\ competitorResults' = competitorResults
                    /\ auditResults' = auditResults]_vars

\* a research has ended in an error while the results of an earlier research and
\* its gauge are stored
C29_Witness ==
    /\ ended = [kind |-> "runResearch", outcome |-> "failed"]
    /\ competitorResults.type = "research"
    /\ scores.competitivePosition > 0

\* C30: for every run request a tab sends, the tab's running indicator eventually
\* returns to false, also when the run ends in an error or is rejected because
\* another operation is running
C30_RunningIndicatorReturns ==
    (call.fn = "tab" /\ call.running) ~> (call.fn = "tab" /\ ~call.running)

====
